---- MODULE Spec2Model ----
(***************************************************************************)
(* A model of barley-runtime: Runtime::perform and Runtime::rollback of    *)
(* src/barley-runtime/src/runtime.rs (one tokio task per graph entry,      *)
(* tokio::sync::Barrier rendezvous per node that has dependents, a JoinSet *)
(* join loop that aborts on the first failed task), the state registry of  *)
(* RuntimeBuilder and Runtime, the run loop of lib.rs, and the sequential  *)
(* perform of blocking/runtime.rs.                                         *)
(***************************************************************************)
EXTENDS Integers, Sequences, FiniteSets, TLC

\* ---------------------------------------------------------------- bounds
NumIds == 3
MaxActions == 3
MaxDeps == 1
MaxValue == 2
MaxFanIn == 2
MaxCalls == 3
\* most nodes in one Scope handed to add_scope
MaxScope == 2
\* most nodes in a graph run under the Interface's hooks
MaxHooked == 2
\* most clones taken of one built Runtime
MaxClones == 2
\* most nodes of a graph built node by node, with dynamic inputs
MaxDynamic == 2

\* ids the generated graphs draw on, and one more for the four-node graphs
Ids == 1..NumIds
IdSpace == 1..(NumIds + 1)
Values == 1..MaxValue

\* error.rs: the kinds an action may return from probe or run
ActionErrors == {"ActionFailed", "StateNotLoaded"}

\* the type tokens and the names the state registry is keyed by; "name" is
\* the literal runtime.rs 293 looks up
TypeTokens == {"Config", "Client"}
Names == {"name", "host"}

\* sequences over S of length 0..n
RECURSIVE SeqUpTo(_, _)
SeqUpTo(S, n) ==
  IF n = 0 THEN {<<>>}
  ELSE LET shorter == SeqUpTo(S, n - 1)
       IN  shorter \cup {Append(s, x) : s \in {q \in shorter : Len(q) = n - 1}, x \in S}

\* action.rs: ActionObject {action, deps, id}; deps are held by id
Node == [id : Ids, deps : SeqUpTo(Ids, MaxDeps)]

\* Ids are fresh random UUIDs, so a graph is taken up to renaming of ids: the
\* entries are kept in the order they were added and an id not seen before is
\* the next number
Canonical(g) ==
  \A i \in 1..Len(g) :
    g[i].id <= Cardinality({g[j].id : j \in 1..(i - 1)}) + 1

\* context.rs: Context.actions, the list add_action pushes onto, after up to
\* n calls
Graphs(n) == {g \in SeqUpTo(Node, n) : Canonical(g)}

VARIABLES
  variant,    \* which engine runs the graph: "runtime" (runtime.rs) or "legacy" (lib.rs)
  actions,    \* ctx.actions: the graph handed over by build()
  main,       \* position of perform(): "built", "joining", "returned"
  barriers,   \* Runtime.barriers: id -> arity (0: no entry)
  arrived,    \* per barrier: tasks that have arrived in the current generation
  pc,         \* per task: position in the spawned task body
  widx,       \* per task: index of the next prerequisite barrier to wait on
  probed,     \* per task: status / result of action.probe
  ret,        \* per task: status / result of action.run(Perform)
  result,     \* per task: what the task returned to the JoinSet
  outputs,    \* Runtime.outputs: id -> value (0: no entry)
  events,     \* lifecycle log lines emitted so far
  notified,   \* JoinSet: finished tasks not yet yielded, in order of completion
  joined,     \* tasks whose result join_next has yielded
  aborted,    \* join_set.abort_all() has been called
  retval,     \* what perform() / rollback() returned
  invoked,    \* the calls of action.run made so far, as <<task, operation>>
  printed,    \* what the runtime itself has printed, as <<stream, text>>
  order,      \* the entries in the order the sort left them (rollback, blocking)
  calls,      \* RuntimeBuilder: the registrations made so far, in call order
  bstate,     \* RuntimeBuilder.state: type token -> value (0: no entry)
  bvariables, \* RuntimeBuilder.variables: name -> value (0: no entry)
  state,      \* Runtime.state
  variables,  \* Runtime.variables
  clones,     \* the variables map of each clone taken of the built Runtime
  draft,      \* the ActionObject under construction, not yet given to the builder
  inputs,     \* the ActionInput::Dynamic values held, as <<graph entry, id named>>
  display,    \* id -> display_name() of the action ("": empty)
  needs_run,  \* id -> the needs_run the probe of the blocking action reports
  conversion  \* the TryFrom<ActionOutput> call made: <<output, target, result>>

\* the state registry of the builder and of the runtime built from it
\* what lies outside the builder's registry and the scheduler
auxVars == <<clones, draft, inputs, display, needs_run, conversion>>

regVars == <<calls, bstate, bvariables, state, variables, auxVars>>

vars == <<variant, actions, main, barriers, arrived, pc, widx, probed, ret, result,
          outputs, events, notified, joined, aborted, retval, invoked, printed,
          order, regVars>>

Tasks == 1..Len(actions)

IdOf(t) == actions[t].id

\* index of the last entry of g that carries id (0: id is not in the graph)
LastEntry(g, id) ==
  LET own == {i \in 1..Len(g) : g[i].id = id}
  IN  IF own = {} THEN 0 ELSE CHOOSE i \in own : \A j \in own : j <= i

\* runtime.rs 60-70: one pass over the entries in the order they were added;
\* an entry first sets the count of its own id to 0 (HashMap::insert replaces
\* what earlier entries had counted), then adds one per dep it lists. What is
\* left for id are the listings made from its last entry onwards
Dependents(g, id) ==
  Cardinality({p \in UNION {{<<i, k>> : k \in 1..Len(g[i].deps)} : i \in 1..Len(g)} :
                 /\ p[1] >= LastEntry(g, id)
                 /\ g[p[1]].deps[p[2]] = id})

\* runtime.rs 75-82: Barrier::new(dependents + 1) for ids with dependents
BarrierArity(g, id) ==
  IF Dependents(g, id) = 0 THEN 0 ELSE Dependents(g, id) + 1

\* runtime.rs 94-100: the prerequisite barriers of a task, in deps order
TaskBarriers(t) ==
  SelectSeq(actions[t].deps, LAMBDA id : barriers[id] # 0)

\* the barrier a suspended task is waiting on
WaitingOn(u) ==
  IF pc[u] = "blocked" THEN TaskBarriers(u)[widx[u]] ELSE IdOf(u)

Waiters(b) ==
  {u \in Tasks : pc[u] \in {"blocked", "blockedOwn"} /\ WaitingOn(u) = b}

\* the registry a runtime carries when the model looks at the scheduler alone
NoRegistry ==
  /\ calls = <<>>
  /\ bstate = [T \in TypeTokens |-> 0]
  /\ bvariables = [n \in Names |-> 0]
  /\ state = [T \in TypeTokens |-> 0]
  /\ variables = [n \in Names |-> 0]

\* the display names an action may have
DisplayNames == {"", "node"}

\* no ActionObject is under construction (id 0)
NoDraft == [id |-> 0, deps |-> <<>>, dyn |-> {}]

\* no clone taken, no node under construction, no dynamic input, every action
\* named, no conversion made
NoAux ==
  /\ clones = <<>>
  /\ draft = NoDraft
  /\ inputs = {}
  /\ display = [id \in IdSpace |-> "node"]
  /\ needs_run = [id \in IdSpace |-> TRUE]
  /\ conversion = <<<<"None">>, "None", <<"NoCall">>>>

\* runtime.rs 336-344 (build): the runtime of engine v right after build(),
\* holding one of the graphs of G, with no barriers and no outputs
Scheduled(v, G) ==
  /\ variant = v
  /\ actions \in G
  /\ main = "built"
  /\ barriers = [id \in IdSpace |-> 0]
  /\ arrived = [id \in IdSpace |-> 0]
  /\ pc = [t \in Tasks |-> "unspawned"]
  /\ widx = [t \in Tasks |-> 1]
  /\ probed = [t \in Tasks |-> <<"NoCall">>]
  /\ ret = [t \in Tasks |-> <<"NoCall">>]
  /\ result = [t \in Tasks |-> <<"Pending">>]
  /\ outputs = [id \in IdSpace |-> 0]
  /\ events = {}
  /\ notified = <<>>
  /\ joined = {}
  /\ aborted = FALSE
  /\ retval = <<"None">>
  /\ invoked = {}
  /\ printed = <<>>
  /\ order = <<>>

Built(v, G) == Scheduled(v, G) /\ NoRegistry /\ NoAux

Init == Built("runtime", Graphs(MaxActions))

\* runtime.rs 52-140: barrier sizing, then one spawned task per graph entry
PerformStart ==
  /\ variant = "runtime"
  /\ main = "built"
  /\ main' = "joining"
  /\ barriers' = [id \in IdSpace |-> BarrierArity(actions, id)]
  /\ pc' = [t \in Tasks |-> "deps"]
  /\ UNCHANGED <<regVars, order, printed, invoked, notified, variant, actions, arrived, widx, probed, ret, result, outputs,
                 events, joined, aborted, retval>>

\* where a task continues once its own barrier lets it through:
\* runtime.rs 134 (the output insert) or lib.rs 269 (return res)
AfterOwn == IF variant = "legacy" THEN "return" ELSE "insert"

\* tokio Barrier::wait by task t on barrier b; own says whether b is the
\* task's own barrier (runtime.rs 131) or a prerequisite's (runtime.rs 108)
BarrierWait(t, b, own) ==
  IF arrived[b] + 1 = barriers[b]
  THEN \* last arrival: the generation ends, every waiter is released
       /\ arrived' = [arrived EXCEPT ![b] = 0]
       /\ pc' = [u \in Tasks |->
                   IF u = t THEN (IF own THEN AfterOwn ELSE "deps")
                   ELSE IF u \in Waiters(b)
                        THEN (IF pc[u] = "blocked" THEN "deps" ELSE AfterOwn)
                        ELSE pc[u]]
       /\ widx' = [u \in Tasks |->
                   IF (u = t /\ ~own) \/ (u \in Waiters(b) /\ pc[u] = "blocked")
                   THEN widx[u] + 1 ELSE widx[u]]
  ELSE \* the task suspends; an aborted task is dropped at this point
       /\ arrived' = [arrived EXCEPT ![b] = @ + 1]
       /\ pc' = [pc EXCEPT ![t] = IF aborted THEN "cancelled"
                                  ELSE IF own THEN "blockedOwn" ELSE "blocked"]
       /\ UNCHANGED widx

\* runtime.rs 107-109: for barrier in barriers { barrier.wait().await }
WaitDep(t) ==
  /\ pc[t] = "deps"
  /\ widx[t] <= Len(TaskBarriers(t))
  /\ BarrierWait(t, TaskBarriers(t)[widx[t]], FALSE)
  /\ UNCHANGED <<regVars, order, printed, invoked, notified, variant, actions, main, barriers, probed, ret, result, outputs,
                 events, joined, aborted, retval>>

\* runtime.rs 111: action.probe(runtime) is called
ProbeStart(t) ==
  /\ pc[t] = "deps"
  /\ widx[t] > Len(TaskBarriers(t))
  /\ pc' = [pc EXCEPT ![t] = "probing"]
  /\ probed' = [probed EXCEPT ![t] = <<"InCall">>]
  /\ UNCHANGED <<regVars, order, printed, invoked, notified, variant, actions, main, barriers, arrived, widx, ret, result,
                 outputs, events, joined, aborted, retval>>

\* mutant: the probe's error is dropped and the action is run all the same
ProbeErrStillRuns(t) ==
  /\ variant = "runtime"
  /\ pc[t] = "probing"
  /\ \E e \in ActionErrors : probed' = [probed EXCEPT ![t] = <<"Err", e>>]
  /\ events' = events \cup {<<"started", t>>}
  /\ ret' = [ret EXCEPT ![t] = <<"InCall">>]
  /\ invoked' = invoked \cup {<<t, "Perform">>}
  /\ pc' = [pc EXCEPT ![t] = "running"]
  /\ UNCHANGED <<regVars, order, printed, notified, variant, actions, main, barriers, arrived, widx, result,
                 outputs, joined, aborted, retval>>

\* runtime.rs 111: probe fails, `?` returns the error from the task
ProbeErr(t) ==
  /\ variant = "runtime"
  /\ pc[t] = "probing"
  /\ \E e \in ActionErrors :
       /\ probed' = [probed EXCEPT ![t] = <<"Err", e>>]
       /\ result' = [result EXCEPT ![t] = <<"Err", e>>]
  /\ pc' = [pc EXCEPT ![t] = "done"]
  /\ notified' = Append(notified, t)
  /\ UNCHANGED <<regVars, order, printed, invoked, variant, actions, main, barriers, arrived, widx, ret, outputs,
                 events, joined, aborted, retval>>

\* mutant: needs_run=false is ignored and the action is run all the same
ProbeSkipStillRuns(t) ==
  /\ variant = "runtime"
  /\ pc[t] = "probing"
  /\ probed' = [probed EXCEPT ![t] = <<"Skip">>]
  /\ events' = events \cup {<<"started", t>>}
  /\ ret' = [ret EXCEPT ![t] = <<"InCall">>]
  /\ invoked' = invoked \cup {<<t, "Perform">>}
  /\ pc' = [pc EXCEPT ![t] = "running"]
  /\ UNCHANGED <<regVars, order, printed, notified, variant, actions, main, barriers, arrived, widx, result,
                 outputs, joined, aborted, retval>>

\* runtime.rs 112-114: needs_run is false, the task returns Ok(())
ProbeSkip(t) ==
  /\ variant = "runtime"
  /\ pc[t] = "probing"
  /\ probed' = [probed EXCEPT ![t] = <<"Skip">>]
  /\ result' = [result EXCEPT ![t] = <<"Ok">>]
  /\ pc' = [pc EXCEPT ![t] = "done"]
  /\ notified' = Append(notified, t)
  /\ UNCHANGED <<regVars, order, printed, invoked, variant, actions, main, barriers, arrived, widx, ret, outputs,
                 events, joined, aborted, retval>>

\* mutant: the engine itself leaves out the started callback of an unnamed action
RunStartNamedOnly(t) ==
  /\ pc[t] = "probing"
  /\ probed' = [probed EXCEPT ![t] = <<"Run">>]
  /\ events' = IF display[IdOf(t)] # "" THEN events \cup {<<"started", t>>} ELSE events
  /\ ret' = [ret EXCEPT ![t] = <<"InCall">>]
  /\ invoked' = invoked \cup {<<t, "Perform">>}
  /\ pc' = [pc EXCEPT ![t] = "running"]
  /\ UNCHANGED <<regVars, order, printed, notified, variant, actions, main, barriers, arrived, widx, result, outputs,
                 joined, aborted, retval>>

\* runtime.rs 116-119: needs_run is true: log the start, call run(Perform)
RunStart(t) ==
  /\ pc[t] = "probing"
  /\ probed' = [probed EXCEPT ![t] = <<"Run">>]
  /\ events' = events \cup {<<"started", t>>}
  /\ ret' = [ret EXCEPT ![t] = <<"InCall">>]
  /\ invoked' = invoked \cup {<<t, "Perform">>}
  /\ pc' = [pc EXCEPT ![t] = "running"]
  /\ UNCHANGED <<regVars, order, printed, notified, variant, actions, main, barriers, arrived, widx, result, outputs,
                 joined, aborted, retval>>

\* runtime.rs 121-126: run returned Err: log it, return it from the task
RunErr(t) ==
  /\ variant = "runtime"
  /\ pc[t] = "running"
  /\ \E e \in ActionErrors :
       /\ ret' = [ret EXCEPT ![t] = <<"Err", e>>]
       /\ result' = [result EXCEPT ![t] = <<"Err", e>>]
  /\ events' = events \cup {<<"failed", t>>}
  /\ pc' = [pc EXCEPT ![t] = "done"]
  /\ notified' = Append(notified, t)
  /\ UNCHANGED <<regVars, order, printed, invoked, variant, actions, main, barriers, arrived, widx, probed, outputs,
                 joined, aborted, retval>>

\* runtime.rs 119-128: run returned Ok(None) or Ok(Some(v)): log the finish
RunOk(t) ==
  /\ variant = "runtime"
  /\ pc[t] = "running"
  /\ \E o \in {<<"None">>} \cup {<<"Some", v>> : v \in Values} :
       ret' = [ret EXCEPT ![t] = o]
  /\ events' = events \cup {<<"finished", t>>}
  /\ pc' = [pc EXCEPT ![t] = "own"]
  /\ UNCHANGED <<regVars, order, printed, invoked, notified, variant, actions, main, barriers, arrived, widx, probed, result,
                 outputs, joined, aborted, retval>>

\* runtime.rs 111/119: the action's probe or run panics; the task ends abnormally
Panic(t) ==
  /\ pc[t] \in {"probing", "running"}
  /\ result' = [result EXCEPT ![t] = <<"Panic">>]
  /\ pc' = [pc EXCEPT ![t] = "done"]
  /\ notified' = IF variant = "runtime" THEN Append(notified, t) ELSE notified
  /\ UNCHANGED <<regVars, order, printed, invoked, variant, actions, main, barriers, arrived, widx, probed, ret,
                 outputs, events, joined, aborted, retval>>

\* runtime.rs 130-132: if let Some(barrier) = self_barrier { barrier.wait().await }
WaitOwn(t) ==
  /\ variant = "runtime"
  /\ pc[t] = "own"
  /\ IF barriers[IdOf(t)] = 0
     THEN /\ pc' = [pc EXCEPT ![t] = "insert"]
          /\ UNCHANGED <<arrived, widx>>
     ELSE BarrierWait(t, IdOf(t), TRUE)
  /\ UNCHANGED <<regVars, order, printed, invoked, notified, variant, actions, main, barriers, probed, ret, result, outputs,
                 events, joined, aborted, retval>>

\* mutant: a run that returned None leaves an entry all the same
InsertEvenIfNone(t) ==
  /\ variant = "runtime"
  /\ pc[t] = "insert"
  /\ outputs' = [outputs EXCEPT ![IdOf(t)] = IF ret[t][1] = "Some" THEN ret[t][2] ELSE 1]
  /\ result' = [result EXCEPT ![t] = <<"Ok">>]
  /\ pc' = [pc EXCEPT ![t] = "done"]
  /\ notified' = Append(notified, t)
  /\ UNCHANGED <<regVars, order, printed, invoked, variant, actions, main, barriers, arrived,
                 widx, probed, ret, events, joined, aborted, retval>>

\* runtime.rs 134-138: insert the output, if any, and return Ok(())
Insert(t) ==
  /\ variant = "runtime"
  /\ pc[t] = "insert"
  /\ outputs' = IF ret[t][1] = "Some"
                THEN [outputs EXCEPT ![IdOf(t)] = ret[t][2]]
                ELSE outputs
  /\ result' = [result EXCEPT ![t] = <<"Ok">>]
  /\ pc' = [pc EXCEPT ![t] = "done"]
  /\ notified' = Append(notified, t)
  /\ UNCHANGED <<regVars, order, printed, invoked, variant, actions, main, barriers, arrived, widx, probed, ret,
                 events, joined, aborted, retval>>

\* tokio: an aborted task is dropped the next time it yields or is scheduled
Cancel(t) ==
  /\ variant = "runtime"
  /\ aborted
  /\ pc[t] \in {"deps", "probing", "running", "insert"}
  /\ pc' = [pc EXCEPT ![t] = "cancelled"]
  /\ UNCHANGED <<regVars, order, printed, invoked, notified, variant, actions, main, barriers, arrived, widx, probed, ret, result,
                 outputs, events, joined, aborted, retval>>

\* runtime.rs 146/155: join_set.abort_all(): suspended tasks never resume
AbortAll ==
  [u \in Tasks |-> IF pc[u] \in {"blocked", "blockedOwn"} THEN "cancelled" ELSE pc[u]]

\* runtime.rs 148-150 (perform), 245-247 (rollback): println! of the long text
\* when the error is ActionFailed(_, long); println! writes to standard output
PrintLong(err) ==
  IF err[2] = "ActionFailed" THEN Append(printed, <<"stdout", "long">>) ELSE printed

\* runtime.rs 142-144: join_next yields the next finished task; it returned Ok(())
JoinOk(t) ==
  /\ variant = "runtime"
  /\ main = "joining"
  /\ notified # <<>>
  /\ Head(notified) = t
  /\ result[t] = <<"Ok">>
  /\ joined' = joined \cup {t}
  /\ notified' = Tail(notified)
  /\ UNCHANGED <<regVars, order, printed, invoked, variant, actions, main, barriers, arrived, pc, widx, probed, ret,
                 result, outputs, events, aborted, retval>>

\* mutant: the error is remembered but the join loop does not return on it
JoinErrKeepsJoining(t) ==
  /\ variant = "runtime"
  /\ main = "joining"
  /\ notified # <<>>
  /\ Head(notified) = t
  /\ result[t][1] = "Err"
  /\ joined' = joined \cup {t}
  /\ notified' = Tail(notified)
  /\ retval' = result[t]
  /\ printed' = PrintLong(result[t])
  /\ UNCHANGED <<regVars, order, invoked, variant, actions, main, barriers, arrived, pc, widx, probed, ret,
                 result, outputs, events, aborted>>

\* mutant: the error is returned without join_set.abort_all()
JoinErrNoAbort(t) ==
  /\ variant = "runtime"
  /\ main = "joining"
  /\ notified # <<>>
  /\ Head(notified) = t
  /\ result[t][1] = "Err"
  /\ joined' = joined \cup {t}
  /\ notified' = Tail(notified)
  /\ retval' = result[t]
  /\ printed' = PrintLong(result[t])
  /\ main' = "returned"
  /\ UNCHANGED <<regVars, order, invoked, variant, actions, barriers, arrived, pc, widx, probed, ret,
                 result, outputs, events, aborted>>

\* mutant: on a failure the nodes that have run are rolled back on the spot
JoinErrRollsBack(t) ==
  /\ variant = "runtime"
  /\ main = "joining"
  /\ notified # <<>>
  /\ Head(notified) = t
  /\ result[t][1] = "Err"
  /\ joined' = joined \cup {t}
  /\ aborted' = TRUE
  /\ pc' = AbortAll
  /\ retval' = result[t]
  /\ printed' = PrintLong(result[t])
  /\ invoked' = invoked \cup {<<u, "Rollback">> : u \in {w \in Tasks : ret[w][1] \in {"None", "Some"}}}
  /\ main' = "returned"
  /\ notified' = Tail(notified)
  /\ UNCHANGED <<regVars, order, variant, actions, barriers, arrived, widx, probed, ret,
                 result, outputs, events>>

\* runtime.rs 145-153: join_next yields a task that returned Err(err)
JoinErr(t) ==
  /\ variant = "runtime"
  /\ main = "joining"
  /\ notified # <<>>
  /\ Head(notified) = t
  /\ result[t][1] = "Err"
  /\ joined' = joined \cup {t}
  /\ aborted' = TRUE
  /\ pc' = AbortAll
  /\ retval' = result[t]
  /\ printed' = PrintLong(result[t])
  /\ main' = "returned"
  /\ notified' = Tail(notified)
  /\ UNCHANGED <<regVars, order, invoked, variant, actions, barriers, arrived, widx, probed, ret, result,
                 outputs, events>>

\* mutant: a JoinError ends perform without abort_all
JoinPanicNoAbort(t) ==
  /\ variant = "runtime"
  /\ main = "joining"
  /\ notified # <<>>
  /\ Head(notified) = t
  /\ result[t] = <<"Panic">>
  /\ joined' = joined \cup {t}
  /\ retval' = <<"Err", "JOIN_SET_ERROR">>
  /\ main' = "returned"
  /\ notified' = Tail(notified)
  /\ UNCHANGED <<regVars, order, printed, invoked, variant, actions, barriers, arrived, pc, widx, probed, ret, result,
                 outputs, events, aborted>>

\* runtime.rs 154-158: join_next yields a JoinError
JoinPanic(t) ==
  /\ variant = "runtime"
  /\ main = "joining"
  /\ notified # <<>>
  /\ Head(notified) = t
  /\ result[t] = <<"Panic">>
  /\ joined' = joined \cup {t}
  /\ aborted' = TRUE
  /\ pc' = AbortAll
  /\ retval' = <<"Err", "JOIN_SET_ERROR">>
  /\ main' = "returned"
  /\ notified' = Tail(notified)
  /\ UNCHANGED <<regVars, order, printed, invoked, variant, actions, barriers, arrived, widx, probed, ret, result,
                 outputs, events>>

\* mutant: Ok is returned as soon as no finished task is left to collect
JoinEndEarly ==
  /\ variant = "runtime"
  /\ main = "joining"
  /\ notified = <<>>
  /\ retval' = <<"Ok">>
  /\ main' = "returned"
  /\ UNCHANGED <<regVars, order, printed, invoked, notified, variant, actions, barriers, arrived, pc, widx, probed, ret, result,
                 outputs, events, joined, aborted>>

\* runtime.rs 142/162: join_next yields None, perform returns Ok(())
JoinEnd ==
  /\ variant = "runtime"
  /\ main = "joining"
  /\ joined = Tasks
  /\ retval' = <<"Ok">>
  /\ main' = "returned"
  /\ UNCHANGED <<regVars, order, printed, invoked, notified, variant, actions, barriers, arrived, pc, widx, probed, ret, result,
                 outputs, events, joined, aborted>>

Next ==
  \/ PerformStart
  \/ \E t \in Tasks : WaitDep(t)
  \/ \E t \in Tasks : ProbeStart(t)
  \/ \E t \in Tasks : ProbeErr(t)
  \/ \E t \in Tasks : ProbeSkip(t)
  \/ \E t \in Tasks : RunStart(t)
  \/ \E t \in Tasks : RunErr(t)
  \/ \E t \in Tasks : RunOk(t)
  \/ \E t \in Tasks : Panic(t)
  \/ \E t \in Tasks : WaitOwn(t)
  \/ \E t \in Tasks : Insert(t)
  \/ \E t \in Tasks : Cancel(t)
  \/ \E t \in Tasks : JoinOk(t)
  \/ \E t \in Tasks : JoinErr(t)
  \/ \E t \in Tasks : JoinPanic(t)
  \/ JoinEnd

Spec == Init /\ [][Next]_vars

\* ------------------------------------------- legacy engine (src/barley-runtime/src/lib.rs)

\* lib.rs 238-243: the stable sort by number of dependents fixes the order in
\* which the entries are spawned; u comes before t in it
SpawnedBefore(u, t) ==
  \/ Dependents(actions, IdOf(u)) < Dependents(actions, IdOf(t))
  \/ Dependents(actions, IdOf(u)) = Dependents(actions, IdOf(t)) /\ u < t

\* lib.rs 253-255: the entries that list a dep for which no barrier was made
NoBarrier ==
  {t \in Tasks : \E d \in {actions[t].deps[i] : i \in 1..Len(actions[t].deps)} :
                   BarrierArity(actions, d) = 0}

\* lib.rs 254: barriers.get(id).unwrap() panics in run() at the first such
\* entry; the tasks spawned before it are detached and go on
LegacyStartPanic ==
  /\ variant = "legacy"
  /\ main = "built"
  /\ NoBarrier # {}
  /\ LET first == CHOOSE t \in NoBarrier : \A u \in NoBarrier \ {t} : SpawnedBefore(t, u)
     IN  pc' = [t \in Tasks |-> IF SpawnedBefore(t, first) THEN "deps" ELSE "unspawned"]
  /\ barriers' = [id \in IdSpace |-> BarrierArity(actions, id)]
  /\ main' = "returned"
  /\ retval' = <<"Panic">>
  /\ UNCHANGED <<regVars, order, printed, invoked, notified, variant, actions, arrived, widx, probed, ret, result, outputs,
                 events, joined, aborted>>

\* lib.rs 214-271: ContextAbstract::run sizes the barriers and spawns the tasks
LegacyStart ==
  /\ variant = "legacy"
  /\ main = "built"
  /\ NoBarrier = {}
  /\ main' = "joining"
  /\ barriers' = [id \in IdSpace |-> BarrierArity(actions, id)]
  /\ pc' = [t \in Tasks |-> "deps"]
  /\ UNCHANGED <<regVars, order, printed, invoked, notified, variant, actions, arrived, widx, probed, ret, result, outputs,
                 events, joined, aborted, retval>>

\* lib.rs 287: action.check fails, `?` returns the error from run_action
LegacyCheckErr(t) ==
  /\ variant = "legacy"
  /\ pc[t] = "probing"
  /\ \E e \in ActionErrors :
       /\ probed' = [probed EXCEPT ![t] = <<"Err", e>>]
       /\ result' = [result EXCEPT ![t] = <<"Err", e>>]
  /\ pc' = [pc EXCEPT ![t] = "own"]
  /\ UNCHANGED <<regVars, order, printed, invoked, notified, variant, actions, main, barriers, arrived, widx, ret, outputs,
                 events, joined, aborted, retval>>

\* lib.rs 287, 312-314: check returns true, run_action returns the stored output
LegacyCheckSkip(t) ==
  /\ variant = "legacy"
  /\ pc[t] = "probing"
  /\ probed' = [probed EXCEPT ![t] = <<"Skip">>]
  /\ result' = [result EXCEPT ![t] = <<"Ok">>]
  /\ pc' = [pc EXCEPT ![t] = "own"]
  /\ UNCHANGED <<regVars, order, printed, invoked, notified, variant, actions, main, barriers, arrived, widx, ret, outputs,
                 events, joined, aborted, retval>>

\* lib.rs 292-300: perform returned Err: on_action_failed, return it
LegacyPerformErr(t) ==
  /\ variant = "legacy"
  /\ pc[t] = "running"
  /\ \E e \in ActionErrors :
       /\ ret' = [ret EXCEPT ![t] = <<"Err", e>>]
       /\ result' = [result EXCEPT ![t] = <<"Err", e>>]
  /\ events' = events \cup {<<"failed", t>>}
  /\ pc' = [pc EXCEPT ![t] = "own"]
  /\ UNCHANGED <<regVars, order, printed, invoked, notified, variant, actions, main, barriers, arrived, widx, probed, outputs,
                 joined, aborted, retval>>

\* lib.rs 292, 302-304: perform returned Ok: on_action_finished
LegacyPerformOk(t) ==
  /\ variant = "legacy"
  /\ pc[t] = "running"
  /\ \E o \in {<<"None">>} \cup {<<"Some", v>> : v \in Values} :
       ret' = [ret EXCEPT ![t] = o]
  /\ events' = events \cup {<<"finished", t>>}
  /\ pc' = [pc EXCEPT ![t] = "store"]
  /\ UNCHANGED <<regVars, order, printed, invoked, notified, variant, actions, main, barriers, arrived, widx, probed, result,
                 outputs, joined, aborted, retval>>

\* lib.rs 306-311: store the output, if any; run_action returns Ok
LegacyStore(t) ==
  /\ variant = "legacy"
  /\ pc[t] = "store"
  /\ outputs' = IF ret[t][1] = "Some"
                THEN [outputs EXCEPT ![IdOf(t)] = ret[t][2]]
                ELSE outputs
  /\ result' = [result EXCEPT ![t] = <<"Ok">>]
  /\ pc' = [pc EXCEPT ![t] = "own"]
  /\ UNCHANGED <<regVars, order, printed, invoked, notified, variant, actions, main, barriers, arrived, widx, probed, ret,
                 events, joined, aborted, retval>>

\* lib.rs 265-267: if let Some(barrier) = self_barrier { barrier.wait().await }
LegacyWaitOwn(t) ==
  /\ variant = "legacy"
  /\ pc[t] = "own"
  /\ IF barriers[IdOf(t)] = 0
     THEN /\ pc' = [pc EXCEPT ![t] = "return"]
          /\ UNCHANGED <<arrived, widx>>
     ELSE BarrierWait(t, IdOf(t), TRUE)
  /\ UNCHANGED <<regVars, order, printed, invoked, notified, variant, actions, main, barriers, probed, ret, result, outputs,
                 events, joined, aborted, retval>>

\* lib.rs 269: the task returns res
LegacyReturn(t) ==
  /\ variant = "legacy"
  /\ pc[t] = "return"
  /\ pc' = [pc EXCEPT ![t] = "done"]
  /\ UNCHANGED <<regVars, order, printed, invoked, notified, variant, actions, main, barriers, arrived, widx, probed, ret,
                 result, outputs, events, joined, aborted, retval>>

\* lib.rs 273-281: join_all waits for every handle, then the first result in
\* handle order that is a JoinError or an Err is returned
LegacyJoinAll ==
  /\ variant = "legacy"
  /\ main = "joining"
  /\ \A t \in Tasks : pc[t] = "done"
  /\ joined' = Tasks
  /\ LET failed == {t \in Tasks : result[t] # <<"Ok">>}
     IN  IF failed = {}
         THEN retval' = <<"Ok">>
         ELSE LET f == CHOOSE t \in failed : \A u \in failed \ {t} : SpawnedBefore(t, u)
              IN  retval' = IF result[f] = <<"Panic">>
                            THEN <<"Err", "JoinError">> ELSE result[f]
  /\ main' = "returned"
  /\ UNCHANGED <<regVars, order, printed, invoked, notified, variant, actions, barriers, arrived, pc, widx, probed, ret, result,
                 outputs, events, aborted>>

NextLegacy ==
  \/ LegacyStart
  \/ LegacyStartPanic
  \/ \E t \in Tasks : WaitDep(t)
  \/ \E t \in Tasks : ProbeStart(t)
  \/ \E t \in Tasks : LegacyCheckErr(t)
  \/ \E t \in Tasks : LegacyCheckSkip(t)
  \/ \E t \in Tasks : RunStart(t)
  \/ \E t \in Tasks : LegacyPerformErr(t)
  \/ \E t \in Tasks : LegacyPerformOk(t)
  \/ \E t \in Tasks : LegacyStore(t)
  \/ \E t \in Tasks : Panic(t)
  \/ \E t \in Tasks : LegacyWaitOwn(t)
  \/ \E t \in Tasks : LegacyReturn(t)
  \/ LegacyJoinAll

InitLegacy == Built("legacy", Graphs(MaxActions))

SpecLegacy == InitLegacy /\ [][NextLegacy]_vars

\* both engines side by side
NextBoth ==
  \/ (variant = "runtime" /\ Next)
  \/ (variant = "legacy" /\ NextLegacy)

SpecBoth == (Init \/ InitLegacy) /\ [][NextBoth]_vars

\* two producers and two consumers, each consumer requiring both producers
\* in either order (the graph of the "opposite orders" case)
FanInGraphs ==
  {<<[id |-> 1, deps |-> <<>>], [id |-> 2, deps |-> <<>>],
     [id |-> 3, deps |-> d3], [id |-> 4, deps |-> d4]>> :
     d3 \in {<<1, 2>>, <<2, 1>>}, d4 \in {<<1, 2>>, <<2, 1>>}}

InitFanIn == Built("runtime", FanInGraphs)

SpecFanIn == InitFanIn /\ [][Next]_vars

\* three nodes added in dependency order, the last one requiring both others
\* in either order, the middle one with or without the first as its dep
TriangleGraphs ==
  {<<[id |-> 1, deps |-> <<>>], [id |-> 2, deps |-> d2], [id |-> 3, deps |-> d3]>> :
     d2 \in {<<>>, <<1>>}, d3 \in {<<1, 2>>, <<2, 1>>}}

InitTriangle == Built("runtime", TriangleGraphs)

SpecTriangle == InitTriangle /\ [][Next]_vars

\* ------------------------------------------------------------ graph shape
GraphIds(g) == {g[i].id : i \in 1..Len(g)}

DepSet(d) == {d[i] : i \in 1..Len(d)}

\* the ids listed as deps by the entries that carry id
DepIds(g, id) == UNION {DepSet(g[i].deps) : i \in {j \in 1..Len(g) : g[j].id = id}}

RECURSIVE Closure(_, _, _)
Closure(g, S, n) ==
  IF n = 0 THEN S
  ELSE Closure(g, S \cup UNION {DepIds(g, id) : id \in S}, n - 1)

\* the ids that id depends on, directly or transitively
Ancestors(g, id) == Closure(g, DepIds(g, id), Len(g))

\* the ids that the entry of task t depends on, directly or transitively
TaskAncestors(t) == Closure(actions, DepSet(actions[t].deps), Len(actions))

NoDupNodes(g) == \A i, j \in 1..Len(g) : g[i].id = g[j].id => i = j

DepsInGraph(g) == \A i \in 1..Len(g) : DepSet(g[i].deps) \subseteq GraphIds(g)

Acyclic(g) == \A id \in GraphIds(g) : id \notin Ancestors(g, id)

NoDupDeps(g) == \A i \in 1..Len(g) : Cardinality(DepSet(g[i].deps)) = Len(g[i].deps)

\* acyclic, every node added once, every dep itself in the graph
WellFormed(g) == NoDupNodes(g) /\ DepsInGraph(g) /\ Acyclic(g)

\* ------------------------------------------- Runtime::rollback (runtime.rs 181-260)

\* runtime.rs 197-207: one pass over the entries in the order they were
\* added; an entry first sets the list of its own id to empty (HashMap::insert
\* replaces what earlier entries had pushed), then pushes its id onto the list
\* of each dep. What is left for id are the ids of the entries that list it,
\* from its last entry onwards
RollbackDependents(g, id) ==
  {g[i].id : i \in {j \in 1..Len(g) : j >= LastEntry(g, id) /\ id \in DepSet(g[j].deps)}}

\* runtime.rs 211-224: the comparator handed to sort_by, on two entries
RollbackCmp(a, b) ==
  IF IdOf(b) \in RollbackDependents(actions, IdOf(a)) THEN "Greater"
  ELSE IF IdOf(a) \in RollbackDependents(actions, IdOf(b)) THEN "Less"
  ELSE "Equal"

\* sort_by's is_less
RollbackLess(a, b) == RollbackCmp(a, b) = "Less"

\* slices of up to 20 elements are sorted by insertion. Newer standard
\* libraries insert each element into the sorted prefix before it, moving it
\* left while it is less than its left neighbour
RECURSIVE TailPos(_, _, _)
TailPos(v, x, j) ==
  IF j > 0 /\ RollbackLess(x, v[j]) THEN TailPos(v, x, j - 1) ELSE j

InsertTail(v, x) ==
  LET j == TailPos(v, x, Len(v))
  IN  SubSeq(v, 1, j) \o <<x>> \o SubSeq(v, j + 1, Len(v))

RECURSIVE SortShiftLeft(_, _)
SortShiftLeft(done, rest) ==
  IF rest = <<>> THEN done
  ELSE SortShiftLeft(InsertTail(done, Head(rest)), Tail(rest))

\* older standard libraries insert each element, from the right end, into the
\* sorted suffix after it, moving it right while its right neighbour is less
RECURSIVE HeadPos(_, _, _)
HeadPos(v, x, k) ==
  IF k < Len(v) /\ RollbackLess(v[k + 1], x) THEN HeadPos(v, x, k + 1) ELSE k

InsertHead(x, v) ==
  LET k == HeadPos(v, x, 0)
  IN  SubSeq(v, 1, k) \o <<x>> \o SubSeq(v, k + 1, Len(v))

RECURSIVE SortInsertHead(_, _)
SortInsertHead(rest, done) ==
  IF rest = <<>> THEN done
  ELSE SortInsertHead(SubSeq(rest, 1, Len(rest) - 1), InsertHead(rest[Len(rest)], done))

\* position of entry t in the sorted sequence
PosIn(seq, t) == CHOOSE i \in 1..Len(seq) : seq[i] = t

\* the entries in the order they were added
AddOrder == [i \in 1..Len(actions) |-> i]

\* runtime.rs 210-224: the comparator is not a total order, so the result is
\* whatever the insertion sort of the build makes of it
RollbackOrders == {SortShiftLeft(<<>>, AddOrder), SortInsertHead(AddOrder, <<>>)}

\* first entry the gate loop has not probed yet
GateNext(t) ==
  /\ variant = "rollback"
  /\ main = "built"
  /\ probed[t] = <<"NoCall">>
  /\ \A u \in Tasks : u < t => probed[u] = <<"CanRollback">>

\* runtime.rs 188-192: the probe of the next entry reports can_rollback=true
RollbackProbeCan(t) ==
  /\ GateNext(t)
  /\ probed' = [probed EXCEPT ![t] = <<"CanRollback">>]
  /\ UNCHANGED <<regVars, order, printed, invoked, notified, variant, actions, main,
                 barriers, arrived, pc, widx, ret, result, outputs, events, joined,
                 aborted, retval>>

\* mutant: can_rollback=false is not looked at
RollbackProbeNoIgnored(t) ==
  /\ GateNext(t)
  /\ probed' = [probed EXCEPT ![t] = <<"NoRollback">>]
  /\ UNCHANGED <<regVars, order, printed, invoked, notified, variant, actions, main,
                 barriers, arrived, pc, widx, ret, result, outputs, events, joined,
                 aborted, retval>>

\* runtime.rs 189-191: it reports can_rollback=false: InternalError("NO_ROLLBACK")
RollbackProbeNo(t) ==
  /\ GateNext(t)
  /\ probed' = [probed EXCEPT ![t] = <<"NoRollback">>]
  /\ retval' = <<"Err", "NO_ROLLBACK">>
  /\ main' = "returned"
  /\ UNCHANGED <<regVars, order, printed, invoked, notified, variant, actions,
                 barriers, arrived, pc, widx, ret, result, outputs, events, joined,
                 aborted>>

\* runtime.rs 189: the probe fails, `?` returns its error from rollback()
RollbackProbeErr(t) ==
  /\ GateNext(t)
  /\ \E e \in ActionErrors :
       /\ probed' = [probed EXCEPT ![t] = <<"Err", e>>]
       /\ retval' = <<"Err", e>>
  /\ main' = "returned"
  /\ UNCHANGED <<regVars, order, printed, invoked, notified, variant, actions,
                 barriers, arrived, pc, widx, ret, result, outputs, events, joined,
                 aborted>>

\* runtime.rs 189: the probe panics, and rollback() with it
RollbackProbePanic(t) ==
  /\ GateNext(t)
  /\ probed' = [probed EXCEPT ![t] = <<"InCall">>]
  /\ retval' = <<"Panic">>
  /\ main' = "returned"
  /\ UNCHANGED <<regVars, order, printed, invoked, notified, variant, actions,
                 barriers, arrived, pc, widx, ret, result, outputs, events, joined,
                 aborted>>

\* runtime.rs 194-237: every probe passed: sort the entries, spawn one task each
RollbackSpawn ==
  /\ variant = "rollback"
  /\ main = "built"
  /\ \A t \in Tasks : probed[t] = <<"CanRollback">>
  /\ order' \in RollbackOrders
  /\ pc' = [t \in Tasks |-> "spawned"]
  /\ main' = "joining"
  /\ UNCHANGED <<regVars, printed, invoked, notified, variant, actions, barriers,
                 arrived, widx, probed, ret, result, outputs, events, joined, aborted,
                 retval>>

\* runtime.rs 233: the task is polled and calls action.run(runtime, Rollback)
RollbackRunStart(t) ==
  /\ variant = "rollback"
  /\ pc[t] = "spawned"
  /\ ret' = [ret EXCEPT ![t] = <<"InCall">>]
  /\ invoked' = invoked \cup {<<t, "Rollback">>}
  /\ pc' = [pc EXCEPT ![t] = "running"]
  /\ UNCHANGED <<regVars, order, printed, notified, variant, actions, main, barriers,
                 arrived, widx, probed, result, outputs, events, joined, aborted, retval>>

\* runtime.rs 233-235: run returned Ok; its output is dropped, the task returns Ok(())
RollbackRunOk(t) ==
  /\ variant = "rollback"
  /\ pc[t] = "running"
  /\ ret' = [ret EXCEPT ![t] = <<"None">>]
  /\ result' = [result EXCEPT ![t] = <<"Ok">>]
  /\ pc' = [pc EXCEPT ![t] = "done"]
  /\ notified' = Append(notified, t)
  /\ UNCHANGED <<regVars, order, printed, invoked, variant, actions, main, barriers,
                 arrived, widx, probed, outputs, events, joined, aborted, retval>>

\* runtime.rs 233: run returned Err, `?` returns it from the task
RollbackRunErr(t) ==
  /\ variant = "rollback"
  /\ pc[t] = "running"
  /\ \E e \in ActionErrors :
       /\ ret' = [ret EXCEPT ![t] = <<"Err", e>>]
       /\ result' = [result EXCEPT ![t] = <<"Err", e>>]
  /\ pc' = [pc EXCEPT ![t] = "done"]
  /\ notified' = Append(notified, t)
  /\ UNCHANGED <<regVars, order, printed, invoked, variant, actions, main, barriers,
                 arrived, widx, probed, outputs, events, joined, aborted, retval>>

\* runtime.rs 233: run panics; the task ends abnormally
RollbackPanic(t) ==
  /\ variant = "rollback"
  /\ pc[t] = "running"
  /\ result' = [result EXCEPT ![t] = <<"Panic">>]
  /\ pc' = [pc EXCEPT ![t] = "done"]
  /\ notified' = Append(notified, t)
  /\ UNCHANGED <<regVars, order, printed, invoked, variant, actions, main, barriers,
                 arrived, widx, probed, ret, outputs, events, joined, aborted, retval>>

\* tokio: an aborted task is dropped the next time it yields or is scheduled
RollbackCancel(t) ==
  /\ variant = "rollback"
  /\ aborted
  /\ pc[t] \in {"spawned", "running"}
  /\ pc' = [pc EXCEPT ![t] = "cancelled"]
  /\ UNCHANGED <<regVars, order, printed, invoked, notified, variant, actions, main,
                 barriers, arrived, widx, probed, ret, result, outputs, events, joined,
                 aborted, retval>>

\* runtime.rs 239-241: join_next yields the next finished task; it returned Ok(())
RollbackJoinOk(t) ==
  /\ variant = "rollback"
  /\ main = "joining"
  /\ notified # <<>>
  /\ Head(notified) = t
  /\ result[t] = <<"Ok">>
  /\ joined' = joined \cup {t}
  /\ notified' = Tail(notified)
  /\ UNCHANGED <<regVars, order, printed, invoked, variant, actions, main, barriers,
                 arrived, pc, widx, probed, ret, result, outputs, events, aborted, retval>>

\* runtime.rs 242-250: join_next yields a task that returned Err(err)
RollbackJoinErr(t) ==
  /\ variant = "rollback"
  /\ main = "joining"
  /\ notified # <<>>
  /\ Head(notified) = t
  /\ result[t][1] = "Err"
  /\ joined' = joined \cup {t}
  /\ aborted' = TRUE
  /\ retval' = result[t]
  /\ printed' = PrintLong(result[t])
  /\ main' = "returned"
  /\ notified' = Tail(notified)
  /\ UNCHANGED <<regVars, order, invoked, variant, actions, barriers, arrived, pc,
                 widx, probed, ret, result, outputs, events>>

\* runtime.rs 251-255: join_next yields a JoinError
RollbackJoinPanic(t) ==
  /\ variant = "rollback"
  /\ main = "joining"
  /\ notified # <<>>
  /\ Head(notified) = t
  /\ result[t] = <<"Panic">>
  /\ joined' = joined \cup {t}
  /\ aborted' = TRUE
  /\ retval' = <<"Err", "JOIN_SET_ERROR">>
  /\ main' = "returned"
  /\ notified' = Tail(notified)
  /\ UNCHANGED <<regVars, order, printed, invoked, variant, actions, barriers, arrived,
                 pc, widx, probed, ret, result, outputs, events>>

\* runtime.rs 239/259: join_next yields None, rollback returns Ok(())
RollbackJoinEnd ==
  /\ variant = "rollback"
  /\ main = "joining"
  /\ joined = Tasks
  /\ retval' = <<"Ok">>
  /\ main' = "returned"
  /\ UNCHANGED <<regVars, order, printed, invoked, notified, variant, actions, barriers,
                 arrived, pc, widx, probed, ret, result, outputs, events, joined, aborted>>

NextRollback ==
  \/ \E t \in Tasks : RollbackProbeCan(t)
  \/ \E t \in Tasks : RollbackProbeNo(t)
  \/ \E t \in Tasks : RollbackProbeErr(t)
  \/ \E t \in Tasks : RollbackProbePanic(t)
  \/ RollbackSpawn
  \/ \E t \in Tasks : RollbackRunStart(t)
  \/ \E t \in Tasks : RollbackRunOk(t)
  \/ \E t \in Tasks : RollbackRunErr(t)
  \/ \E t \in Tasks : RollbackPanic(t)
  \/ \E t \in Tasks : RollbackCancel(t)
  \/ \E t \in Tasks : RollbackJoinOk(t)
  \/ \E t \in Tasks : RollbackJoinErr(t)
  \/ \E t \in Tasks : RollbackJoinPanic(t)
  \/ RollbackJoinEnd

\* rollback looks at the deps only to sort; it is run on the graphs that are
\* acyclic with every node added once, in every order of adding them, with
\* up to MaxFanIn deps per node
RollbackGraphs(n) ==
  {g \in SeqUpTo([id : Ids, deps : SeqUpTo(Ids, MaxFanIn)], n) :
     Canonical(g) /\ WellFormed(g) /\ NoDupDeps(g)}

InitRollback == Built("rollback", RollbackGraphs(MaxActions))

SpecRollback == InitRollback /\ [][NextRollback]_vars

\* ---------------------- blocking runtime (src/barley-runtime/src/blocking/runtime.rs)

\* blocking/action.rs 60-64, 119-121: a blocking Node is not Clone and holds
\* its deps as borrowed references, and add_action takes the node by value: a
\* node that another node of the graph borrows cannot be moved into the
\* builder. The graphs are those with every node added once and every dep
\* outside the graph
BlockingGraphs(n) ==
  {g \in Graphs(n) : NoDupNodes(g) /\ \A i \in 1..Len(g) : DepSet(g[i].deps) \cap GraphIds(g) = {}}

\* blocking/runtime.rs 35-44: the dependents count, by the same one-pass loop
\* as runtime.rs 60-70. blocking/runtime.rs 46-51: the stable sort, ascending
\* in that count, puts u before t
BlockingBefore(u, t) ==
  \/ Dependents(actions, IdOf(u)) < Dependents(actions, IdOf(t))
  \/ Dependents(actions, IdOf(u)) = Dependents(actions, IdOf(t)) /\ u < t

BlockingOrder ==
  [i \in 1..Len(actions) |->
     CHOOSE t \in Tasks : Cardinality({u \in Tasks : BlockingBefore(u, t)}) = i - 1]

\* blocking/runtime.rs 31-53: count, sort
BlockingStart ==
  /\ variant = "blocking"
  /\ main = "built"
  /\ order' = BlockingOrder
  /\ main' = "running"
  /\ UNCHANGED <<regVars, printed, invoked, notified, variant, actions, barriers,
                 arrived, pc, widx, probed, ret, result, outputs, events, joined, aborted,
                 retval>>

\* blocking/runtime.rs 55-56: the loop reaches the next entry of the sorted
\* list and calls action.run(&self, Perform); no probe is made
BlockingRunCall(t) ==
  /\ variant = "blocking"
  /\ main = "running"
  /\ ret[t] = <<"NoCall">>
  /\ \A u \in Tasks : PosIn(order, u) < PosIn(order, t) => ret[u][1] \in {"None", "Some"}
  /\ ret' = [ret EXCEPT ![t] = <<"InCall">>]
  /\ invoked' = invoked \cup {<<t, "Perform">>}
  /\ pc' = [pc EXCEPT ![t] = "running"]
  /\ UNCHANGED <<regVars, order, printed, notified, variant, actions, main, barriers,
                 arrived, widx, probed, result, outputs, events, joined, aborted, retval>>

\* blocking/runtime.rs 56-60: run returned Ok: insert the output, if any
BlockingRunOk(t) ==
  /\ variant = "blocking"
  /\ main = "running"
  /\ pc[t] = "running"
  /\ \E o \in {<<"None">>} \cup {<<"Some", v>> : v \in Values} :
       /\ ret' = [ret EXCEPT ![t] = o]
       /\ outputs' = IF o[1] = "Some" THEN [outputs EXCEPT ![IdOf(t)] = o[2]] ELSE outputs
  /\ result' = [result EXCEPT ![t] = <<"Ok">>]
  /\ pc' = [pc EXCEPT ![t] = "done"]
  /\ UNCHANGED <<regVars, order, printed, invoked, notified, variant, actions, main,
                 barriers, arrived, widx, probed, events, joined, aborted, retval>>

\* blocking/runtime.rs 56: run returned Err, `?` returns it from perform()
BlockingRunErr(t) ==
  /\ variant = "blocking"
  /\ main = "running"
  /\ pc[t] = "running"
  /\ \E e \in ActionErrors :
       /\ ret' = [ret EXCEPT ![t] = <<"Err", e>>]
       /\ result' = [result EXCEPT ![t] = <<"Err", e>>]
       /\ retval' = <<"Err", e>>
  /\ pc' = [pc EXCEPT ![t] = "done"]
  /\ main' = "returned"
  /\ UNCHANGED <<regVars, order, printed, invoked, notified, variant, actions,
                 barriers, arrived, widx, probed, outputs, events, joined, aborted>>

\* blocking/runtime.rs 56: run panics, and perform() with it
BlockingPanic(t) ==
  /\ variant = "blocking"
  /\ main = "running"
  /\ pc[t] = "running"
  /\ result' = [result EXCEPT ![t] = <<"Panic">>]
  /\ retval' = <<"Panic">>
  /\ pc' = [pc EXCEPT ![t] = "done"]
  /\ main' = "returned"
  /\ UNCHANGED <<regVars, order, printed, invoked, notified, variant, actions,
                 barriers, arrived, widx, probed, ret, outputs, events, joined, aborted>>

\* blocking/runtime.rs 55-63: the loop is through, perform() returns Ok(())
BlockingEnd ==
  /\ variant = "blocking"
  /\ main = "running"
  /\ \A t \in Tasks : ret[t][1] \in {"None", "Some"}
  /\ retval' = <<"Ok">>
  /\ main' = "returned"
  /\ UNCHANGED <<regVars, order, printed, invoked, notified, variant, actions,
                 barriers, arrived, pc, widx, probed, ret, result, outputs, events, joined,
                 aborted>>

NextBlocking ==
  \/ BlockingStart
  \/ \E t \in Tasks : BlockingRunCall(t)
  \/ \E t \in Tasks : BlockingRunOk(t)
  \/ \E t \in Tasks : BlockingRunErr(t)
  \/ \E t \in Tasks : BlockingPanic(t)
  \/ BlockingEnd

InitBlocking == Built("blocking", BlockingGraphs(MaxActions))

SpecBlocking == InitBlocking /\ [][NextBlocking]_vars

\* ------------------------------- state registry (runtime.rs 267-296, 336-356)

\* everything but the registry and the position of the builder
schedVars == <<variant, actions, barriers, arrived, pc, widx, probed, ret, result,
               outputs, events, notified, joined, aborted, retval, invoked, printed,
               order>>

\* runtime.rs 310-316: RuntimeBuilder::new(), nothing registered, no action added
Unbuilt(v) ==
  /\ variant = v
  /\ actions = <<>>
  /\ main = "building"
  /\ barriers = [id \in IdSpace |-> 0]
  /\ arrived = [id \in IdSpace |-> 0]
  /\ pc = <<>>
  /\ widx = <<>>
  /\ probed = <<>>
  /\ ret = <<>>
  /\ result = <<>>
  /\ outputs = [id \in IdSpace |-> 0]
  /\ events = {}
  /\ notified = <<>>
  /\ joined = {}
  /\ aborted = FALSE
  /\ retval = <<"None">>
  /\ invoked = {}
  /\ printed = <<>>
  /\ order = <<>>

InitRegistry == Unbuilt("registry") /\ NoRegistry /\ NoAux

\* mutant: a type that is already registered keeps its first value
add_state_keeps_first(T, v) ==
  /\ variant = "registry"
  /\ main = "building"
  /\ Len(calls) < MaxCalls
  /\ bstate' = IF bstate[T] = 0 THEN [bstate EXCEPT ![T] = v] ELSE bstate
  /\ calls' = Append(calls, <<"add_state", T, v>>)
  /\ UNCHANGED <<schedVars, auxVars, main, bvariables, state, variables>>

\* runtime.rs 347-350: RuntimeBuilder::add_state<T>(state)
add_state(T, v) ==
  /\ variant = "registry"
  /\ main = "building"
  /\ Len(calls) < MaxCalls
  /\ bstate' = [bstate EXCEPT ![T] = v]
  /\ calls' = Append(calls, <<"add_state", T, v>>)
  /\ UNCHANGED <<schedVars, auxVars, main, bvariables, state, variables>>

\* runtime.rs 353-356: RuntimeBuilder::set_variable(name, value)
set_variable(n, v) ==
  /\ variant = "registry"
  /\ main = "building"
  /\ Len(calls) < MaxCalls
  /\ bvariables' = [bvariables EXCEPT ![n] = v]
  /\ calls' = Append(calls, <<"set_variable", n, v>>)
  /\ UNCHANGED <<schedVars, auxVars, main, bstate, state, variables>>

\* runtime.rs 336-344: build() hands over ctx and state; barriers, outputs and
\* variables start out as new, empty maps
build ==
  /\ variant \in {"registry", "runtime"}
  /\ main = "building"
  /\ state' = bstate
  /\ variables' = [n \in Names |-> 0]
  /\ main' = "built"
  /\ UNCHANGED <<schedVars, auxVars, calls, bstate, bvariables>>

\* runtime.rs 281-283: Runtime::set_variable(name, value), on the built runtime
runtime_set_variable(n, v) ==
  /\ variant = "registry"
  /\ main = "built"
  /\ Len(calls) < MaxCalls
  /\ variables' = [variables EXCEPT ![n] = v]
  /\ calls' = Append(calls, <<"runtime_set_variable", n, v>>)
  /\ UNCHANGED <<schedVars, auxVars, main, bstate, bvariables, state>>

\* runtime.rs 274-278: Runtime::get_state<T>() (0: None)
get_state(T) == state[T]

\* runtime.rs 292-296: Runtime::get_variable<T>() takes no name; it looks up
\* the literal key "name" whatever name the caller has in mind (0: None)
get_variable(n) == variables["name"]

NextRegistry ==
  \/ \E T \in TypeTokens, v \in Values : add_state(T, v)
  \/ \E n \in Names, v \in Values : set_variable(n, v)
  \/ build
  \/ \E n \in Names, v \in Values : runtime_set_variable(n, v)

SpecRegistry == InitRegistry /\ [][NextRegistry]_vars

\* the value of the last call of that kind for that key (0: there is none)
LastValue(kind, key) ==
  LET hits == {i \in 1..Len(calls) : calls[i][1] = kind /\ calls[i][2] = key}
  IN  IF hits = {} THEN 0
      ELSE calls[CHOOSE i \in hits : \A j \in hits : j <= i][3]

\* ------------------------------------------------------- state predicates
\* no probe skipped or failed, no run failed, no panic, so far
AllHealthy ==
  \A t \in Tasks :
    /\ probed[t][1] \in {"NoCall", "InCall", "Run"}
    /\ ret[t][1] \in {"NoCall", "InCall", "None", "Some"}
    /\ result[t][1] \in {"Pending", "Ok"}

\* perform() is in its join loop and nothing can move any more: every task is
\* suspended on a barrier or already joined, and join_next stays pending
Stuck ==
  /\ main = "joining"
  /\ joined # Tasks
  /\ notified = <<>>
  /\ \A t \in Tasks : pc[t] \in {"blocked", "blockedOwn", "done"}

RunReturned(a) == ret[a][1] \in {"None", "Some"}

\* ------------------------------------------------------------------ claims

\* C1 (as claimed): on an acyclic graph with every node added once, a node's
\* probe (and so its run) starts only after, for every graph node it lists in
\* its deps, that node's run(Perform) has returned or it was skipped.
C1_DependencyOrder ==
  WellFormed(actions) =>
    \A t \in Tasks :
      probed[t] # <<"NoCall">> =>
        \A d \in DepSet(actions[t].deps) :
          \E a \in Tasks : /\ IdOf(a) = d
                           /\ RunReturned(a) \/ probed[a] = <<"Skip">>

\* C2 (as claimed): while a node is inside probe or run, get_output of every
\* prerequisite whose run returned Some(v) is Some(v) (every node added once).
C2_OutputVisible ==
  NoDupNodes(actions) =>
    \A b \in Tasks :
      pc[b] \in {"probing", "running"} =>
        \A a \in Tasks :
          (IdOf(a) \in DepSet(actions[b].deps) /\ ret[a][1] = "Some")
            => outputs[IdOf(a)] = ret[a][2]

\* C3 (as claimed): a skipped node still signals its barrier, so perform() never
\* ends up stuck with a dependent waiting on the barrier of a skipped node.
C3_SkipSignalsBarrier ==
  (WellFormed(actions) /\ Stuck) =>
    \A n, u \in Tasks :
      ~(probed[n] = <<"Skip">> /\ pc[u] = "blocked" /\ WaitingOn(u) = IdOf(n))

\* C4 (as claimed): on an acyclic graph with every node added once and every dep
\* in the graph (and no dep listed twice), with every probe and run succeeding,
\* no task waits forever: perform() is never stuck short of returning Ok.
C4_WellFormedTerminates ==
  (WellFormed(actions) /\ NoDupDeps(actions) /\ AllHealthy) => ~Stuck

\* C5 (as claimed): two nodes that require the same two prerequisites in
\* opposite orders are both released once everything that ran succeeded.
C5_OppositeOrdersReleased ==
  (AllHealthy /\ Stuck) =>
    \A t \in Tasks : Len(actions[t].deps) = 2 => probed[t] # <<"NoCall">>

\* C6 (as claimed): run(Perform) is invoked at most once on each node.
C6_SingleRun ==
  \A id \in GraphIds(actions) :
    Cardinality({t \in Tasks : IdOf(t) = id /\ ret[t] # <<"NoCall">>}) <= 1

\* C7: a task whose probe reported needs_run=false (legacy: whose check returned
\* true) never calls run(Perform) and logs neither a start nor a finish.
C7_SkipRespectsProbe ==
  \A t \in Tasks :
    probed[t] = <<"Skip">> =>
      /\ ret[t] = <<"NoCall">>
      /\ <<"started", t>> \notin events
      /\ <<"finished", t>> \notin events

C7_Witness ==
  /\ main = "returned"
  /\ retval = <<"Ok">>
  /\ \E t \in Tasks : probed[t] = <<"Skip">>

\* C8 (as claimed): when some run returned an error, perform() returns an error
\* that is a value returned by a failing node.
C8_ErrorIsFromNode ==
  (NoDupNodes(actions) /\ main = "returned" /\ \E x \in Tasks : ret[x][1] = "Err") =>
    /\ retval[1] = "Err"
    /\ \E u \in Tasks : result[u] = retval

\* C8 (amended): perform() returns Ok only if every task returned Ok; a returned
\* error is that of the one failed task the join loop observed: its value, or
\* InternalError("JOIN_SET_ERROR") when that task panicked.
C8_FirstObservedError ==
  main = "returned" =>
    IF retval = <<"Ok">>
    THEN \A t \in Tasks : result[t] = <<"Ok">>
    ELSE \E u \in joined :
           /\ \A w \in joined \ {u} : result[w] = <<"Ok">>
           /\ result[u][1] \in {"Err", "Panic"}
           /\ retval = IF result[u] = <<"Panic">>
                       THEN <<"Err", "JOIN_SET_ERROR">> ELSE result[u]

C8_Witness ==
  /\ main = "returned"
  /\ NoDupNodes(actions)
  /\ \E u \in joined, w \in Tasks \ joined :
       /\ ret[u][1] = "Err" /\ retval = result[u]
       /\ result[w][1] = "Err" /\ result[w] # retval

\* C9 (as claimed): once some run has returned an error, no node that had not
\* started run(Perform) starts it.
C9_NoStartAfterError ==
  [][(NoDupNodes(actions) /\ \E x \in Tasks : ret[x][1] = "Err") =>
       \A t \in Tasks : ret[t] = <<"NoCall">> => ret'[t] = <<"NoCall">>]_vars

\* C9 (amended): once the join loop has observed the failure and called
\* abort_all, a task that was suspended on a barrier never resumes: it starts
\* neither probe nor run(Perform).
C9_SuspendedNeverResume ==
  [][\A t \in Tasks :
       (\/ pc[t] \in {"blocked", "blockedOwn"} /\ retval'[1] = "Err"
        \/ pc[t] = "cancelled")
       => (pc'[t] = "cancelled" /\ probed'[t] = probed[t] /\ ret'[t] = ret[t])]_vars

C9_Witness ==
  /\ retval[1] = "Err"
  /\ WellFormed(actions)
  /\ \E x, t \in Tasks :
       /\ ret[x][1] = "Err" /\ retval = result[x]
       /\ IdOf(x) \notin TaskAncestors(t)
       /\ pc[t] = "cancelled" /\ probed[t] = <<"NoCall">>
       /\ widx[t] <= Len(TaskBarriers(t))
       /\ arrived[TaskBarriers(t)[widx[t]]] = 1

\* C10 (as claimed): if a node's probe or run returned an error, no node that
\* depends on it, directly or transitively, ever starts its probe.
C10_NoDependentAfterError ==
  WellFormed(actions) =>
    \A x, t \in Tasks :
      (result[x][1] = "Err" /\ IdOf(x) \in TaskAncestors(t))
        => probed[t] = <<"NoCall">>

\* C11: once a probe of the rollback gate has reported can_rollback=false,
\* rollback() has returned InternalError("NO_ROLLBACK") and run(Rollback) has
\* been invoked on no node, whichever entry of the graph reported it.
C11_RollbackGate ==
  (variant = "rollback" /\ \E t \in Tasks : probed[t] = <<"NoRollback">>) =>
    /\ main = "returned"
    /\ retval = <<"Err", "NO_ROLLBACK">>
    /\ invoked = {}
    /\ \A t \in Tasks : ret[t] = <<"NoCall">> /\ pc[t] = "unspawned"

C11_Witness ==
  /\ variant = "rollback"
  /\ retval = <<"Err", "NO_ROLLBACK">>
  /\ \E t \in Tasks :
       /\ probed[t] = <<"NoRollback">>
       /\ t > 1
       /\ actions[t].deps # <<>>

\* C12 (as claimed): for every edge (B lists A in its deps), B's run(Rollback)
\* begins before A's: A's has not begun while B's has not.
C12_RollbackOrder ==
  variant = "rollback" =>
    \A a, b \in Tasks :
      (IdOf(a) \in DepSet(actions[b].deps) /\ ret[a] # <<"NoCall">>)
        => ret[b] # <<"NoCall">>

\* C13 (as claimed): the sequence the comparator sort leaves has B before A
\* for every edge (B lists A in its deps).
C13_SortRespectsEdges ==
  (variant = "rollback" /\ main # "built") =>
    \A a, b \in Tasks :
      (order # <<>> /\ IdOf(a) \in DepSet(actions[b].deps))
        => PosIn(order, b) < PosIn(order, a)

\* C14 (as claimed): on a runtime straight from build(), get_variable for a name
\* returns the value the builder's last set_variable gave it, and absent for a
\* name that was never set.
C14_VariableRoundTrip ==
  (variant = "registry" /\ main = "built"
     /\ \A i \in 1..Len(calls) : calls[i][1] # "runtime_set_variable") =>
    \A n \in Names : get_variable(n) = LastValue("set_variable", n)

\* C15: on the built runtime, get_state<T> returns the value of the last
\* add_state<T> made on the builder, and absent for a type never registered.
C15_StateLastWins ==
  (variant = "registry" /\ main = "built") =>
    \A T \in TypeTokens : get_state(T) = LastValue("add_state", T)

C15_Witness ==
  /\ variant = "registry"
  /\ main = "built"
  /\ \E T, U \in TypeTokens :
       /\ \E i, j \in 1..Len(calls) :
            /\ i < j
            /\ calls[i][1] = "add_state" /\ calls[i][2] = T
            /\ calls[j][1] = "add_state" /\ calls[j][2] = T
            /\ calls[i][3] # calls[j][3]
            /\ get_state(T) = calls[j][3]
       /\ get_state(U) = 0

\* C16: perform() invokes run with Operation::Perform only, whether it goes on
\* to return Ok or an error: a failure rolls nothing back.
C16_NoAutomaticRollback ==
  variant = "runtime" => \A c \in invoked : c[2] = "Perform"

C16_Witness ==
  /\ variant = "runtime"
  /\ main = "returned"
  /\ retval[1] = "Err"
  /\ \E t, x \in Tasks :
       /\ ret[x][1] = "Err"
       /\ ret[t][1] = "Some" /\ outputs[IdOf(t)] = ret[t][2]
       /\ <<t, "Perform">> \in invoked

\* C17 (as claimed): when perform() has returned an error, the output of every
\* prerequisite of the failing node whose run(Perform) returned Some(v), and
\* whose barrier the failing node passed, is in the output store once that
\* prerequisite's task has ended.
C17_OutputsSurviveFailure ==
  (variant = "runtime" /\ WellFormed(actions) /\ main = "returned" /\ retval[1] = "Err") =>
    \A a, x \in Tasks :
      (/\ ret[x][1] = "Err"
       /\ IdOf(a) \in DepSet(actions[x].deps)
       /\ barriers[IdOf(a)] # 0
       /\ ret[a][1] = "Some"
       /\ pc[a] \in {"done", "cancelled"})
        => outputs[IdOf(a)] = ret[a][2]

\* C18: every entry id -> v of the output store is the output of a run(Perform)
\* of that node which has returned Some(v); a node none of whose runs returned
\* a value (skipped, failed, returned None) has no entry.
C18_EntriesAreReturnedOutputs ==
  variant = "runtime" =>
    \A id \in IdSpace :
      outputs[id] # 0 =>
        \E t \in Tasks : IdOf(t) = id /\ ret[t] = <<"Some", outputs[id]>>

C18_Witness ==
  /\ variant = "runtime"
  /\ NoDupNodes(actions)
  /\ \E t, n, k \in Tasks :
       /\ outputs[IdOf(t)] # 0
       /\ ret[n] = <<"None">> /\ pc[n] = "done" /\ outputs[IdOf(n)] = 0
       /\ probed[k] = <<"Skip">> /\ outputs[IdOf(k)] = 0

\* C19 (as claimed): when perform() returns ActionFailed(short, long) the text
\* long has been written to standard error and nothing to standard output; on
\* every other outcome the runtime has printed nothing.
C19_LongOnStderr ==
  (variant = "runtime" /\ main = "returned") =>
    IF retval = <<"Err", "ActionFailed">>
    THEN printed = << <<"stderr", "long">> >>
    ELSE printed = <<>>

\* C20 (as claimed): in the blocking perform(), when run(Perform) is called on
\* a node, the run(Perform) of every node it lists in its deps has returned.
C20_BlockingDependencyOrder ==
  variant = "blocking" =>
    \A b \in Tasks :
      ret[b] # <<"NoCall">> =>
        \A d \in DepSet(actions[b].deps) :
          \E a \in Tasks : IdOf(a) = d /\ RunReturned(a)

\* run_action (lib.rs 284-315) has returned for task a: the task is at or past
\* its own barrier
RunActionReturned(a) == pc[a] \in {"own", "blockedOwn", "return", "done"} /\ result[a] # <<"Panic">>

\* C21 (as claimed): in the legacy ContextAbstract::run on an acyclic graph with
\* every node added once, when the check of B has started then for every A in
\* B's deps run_action has returned for A, and when on_action_started of B has
\* been called then on_action_finished of A was called or A was skipped.
C21_LegacyDependencyOrder ==
  (variant = "legacy" /\ WellFormed(actions)) =>
    \A b \in Tasks :
      \A d \in DepSet(actions[b].deps) :
        \E a \in Tasks :
          /\ IdOf(a) = d
          /\ probed[b] # <<"NoCall">> => RunActionReturned(a)
          /\ <<"started", b>> \in events =>
               (<<"finished", a>> \in events \/ probed[a] = <<"Skip">>)

\* ------------------------------------------------------------ the builder
\* the per-task bookkeeping of n entries that no perform() has touched yet
Fresh(n, x) == [i \in 1..n |-> x]

\* context.rs 31-33: Context::add_action pushes the entries, whatever the graph
\* already holds
Push(nodes) ==
  /\ actions' = actions \o nodes
  /\ pc' = pc \o Fresh(Len(nodes), "unspawned")
  /\ widx' = widx \o Fresh(Len(nodes), 1)
  /\ probed' = probed \o Fresh(Len(nodes), <<"NoCall">>)
  /\ ret' = ret \o Fresh(Len(nodes), <<"NoCall">>)
  /\ result' = result \o Fresh(Len(nodes), <<"Pending">>)
  /\ UNCHANGED <<regVars, order, printed, invoked, notified, variant, main, barriers, arrived,
                 outputs, events, joined, aborted, retval>>

\* runtime.rs 319-323: RuntimeBuilder::add_action(action); load_state is the
\* trait's default (action.rs 31), which no action of the repository overrides
add_action(node) ==
  /\ variant = "registry"
  /\ main = "building"
  /\ Len(actions) < MaxActions
  /\ Push(<<node>>)

\* runtime.rs 326-332: RuntimeBuilder::add_scope(scope) adds every node of the
\* scope, in the scope's order (scope.rs 29-39 keeps them as pushed)
add_scope(scope) ==
  /\ variant = "registry"
  /\ main = "building"
  /\ Len(actions) + Len(scope) <= MaxActions
  /\ Push(scope)

NextBuilder ==
  \/ \E node \in Node : add_action(node)
  \/ \E scope \in SeqUpTo(Node, MaxScope) : add_scope(scope)
  \/ build

SpecBuilder == InitRegistry /\ [][NextBuilder]_vars

\* C22 (as claimed): in the graph that build() hands to the Runtime no node id
\* appears more than once, whatever add_action and add_scope calls came before.
C22_NoDuplicateIds ==
  (variant = "registry" /\ main = "built") => NoDupNodes(actions)

\* ---------------------------------------------------- output conversion
\* output.rs 12-21: the values an ActionOutput may carry; floats are written
\* in tenths, 7 is the integer of the documented example
Strings == {"", "a", "7"}
I64s == (-MaxValue..MaxValue) \cup {7}
F64s == -MaxValue..MaxValue
ActionOutput ==
  ({"String"} \X Strings) \cup ({"Integer"} \X I64s) \cup
  ({"Float"} \X F64s) \cup ({"Boolean"} \X BOOLEAN)

\* the four target types that implement TryFrom<ActionOutput>
Targets == {"String", "i64", "f64", "bool"}

\* mutant: the error names the variant that was found instead of the target
try_from_String_names_variant(value) ==
  IF value[1] = "String" THEN <<"Ok", value[2]>>
  ELSE <<"Err", "OutputConversionFailed", value[1]>>

\* output.rs 26-31: TryFrom<ActionOutput> for String
try_from_String(value) ==
  IF value[1] = "String" THEN <<"Ok", value[2]>>
  ELSE <<"Err", "OutputConversionFailed", "String">>

\* output.rs 37-42: TryFrom<ActionOutput> for i64
try_from_i64(value) ==
  IF value[1] = "Integer" THEN <<"Ok", value[2]>>
  ELSE <<"Err", "OutputConversionFailed", "i64">>

\* output.rs 48-53: TryFrom<ActionOutput> for f64
try_from_f64(value) ==
  IF value[1] = "Float" THEN <<"Ok", value[2]>>
  ELSE <<"Err", "OutputConversionFailed", "f64">>

\* output.rs 59-64: TryFrom<ActionOutput> for bool
try_from_bool(value) ==
  IF value[1] = "Boolean" THEN <<"Ok", value[2]>>
  ELSE <<"Err", "OutputConversionFailed", "bool">>

\* the caller holds an output and has named a target type; nothing converted yet
InitConversion ==
  /\ Unbuilt("convert")
  /\ NoRegistry
  /\ clones = <<>>
  /\ draft = NoDraft
  /\ inputs = {}
  /\ display = [id \in IdSpace |-> "node"]
  /\ needs_run = [id \in IdSpace |-> TRUE]
  /\ conversion \in {<<o, T, <<"NoCall">>>> : o \in ActionOutput, T \in Targets}

\* the call T::try_from(output) for the target type named
Convert(T, r) ==
  /\ variant = "convert"
  /\ conversion[2] = T
  /\ conversion[3] = <<"NoCall">>
  /\ conversion' = <<conversion[1], T, r>>
  /\ UNCHANGED <<schedVars, main, calls, bstate, bvariables, state, variables,
                 clones, draft, inputs, display,
                 needs_run>>

ConvertString == Convert("String", try_from_String(conversion[1]))
ConvertI64 == Convert("i64", try_from_i64(conversion[1]))
ConvertF64 == Convert("f64", try_from_f64(conversion[1]))
ConvertBool == Convert("bool", try_from_bool(conversion[1]))

NextConversion ==
  \/ ConvertString
  \/ ConvertI64
  \/ ConvertF64
  \/ ConvertBool

SpecConversion == InitConversion /\ [][NextConversion]_vars

\* the variant of ActionOutput that carries values of the target type
VariantOf(T) ==
  CASE T = "String" -> "String"
    [] T = "i64" -> "Integer"
    [] T = "f64" -> "Float"
    [] T = "bool" -> "Boolean"

\* C23: converting an ActionOutput to String, i64, f64 or bool returns the
\* carried value exactly when the output's variant is the one of the target
\* type, and otherwise fails with OutputConversionFailed carrying the name of
\* the target type.
C23_ConversionByVariant ==
  (variant = "convert" /\ conversion[3] # <<"NoCall">>) =>
    IF conversion[1][1] = VariantOf(conversion[2])
    THEN conversion[3][1] = "Ok" /\ conversion[3][2] = conversion[1][2]
    ELSE conversion[3] = <<"Err", "OutputConversionFailed", conversion[2]>>

\* Integer(7) converted to String has failed with OutputConversionFailed("String")
C23_Witness ==
  /\ variant = "convert"
  /\ conversion[1] = <<"Integer", 7>>
  /\ conversion[2] = "String"
  /\ conversion[3] = <<"Err", "OutputConversionFailed", "String">>

\* ------------------------------------------------- the Interface's hooks
\* barley-interface lib.rs 68-93: each hook of the Interface reads the action's
\* display name and prints one line if it is not empty
InterfaceHook(tag, t) ==
  IF display[IdOf(t)] # "" THEN {<<"stdout", tag, t>>} ELSE {}

on_action_started(t) == InterfaceHook("[STARTED]", t)
on_action_finished(t) == InterfaceHook("[FINISHED]", t)
on_action_failed(t) == InterfaceHook("[FAILED]", t)

\* what the hooks called so far have printed
InterfaceLines ==
  UNION {CASE e[1] = "started" -> on_action_started(e[2])
           [] e[1] = "finished" -> on_action_finished(e[2])
           [] e[1] = "failed" -> on_action_failed(e[2]) : e \in events}

\* barley-interface lib.rs 26-36: a legacy Context whose three callbacks are
\* the Interface's hooks; the actions carry any display name, empty or not
InitInterface ==
  /\ Scheduled("legacy", Graphs(MaxHooked))
  /\ NoRegistry
  /\ clones = <<>>
  /\ draft = NoDraft
  /\ inputs = {}
  /\ display \in {f \in [IdSpace -> DisplayNames] :
                    \A id \in IdSpace \ GraphIds(actions) : f[id] = "node"}
  /\ needs_run = [id \in IdSpace |-> TRUE]
  /\ conversion = <<<<"None">>, "None", <<"NoCall">>>>

SpecInterface == InitInterface /\ [][NextLegacy]_vars

Handles == 0..Len(clones)

VariablesOf(h) == IF h = 0 THEN variables ELSE clones[h]

\* a Runtime built over an empty graph, no clone taken yet
InitClones ==
  /\ Scheduled("clones", {<<>>})
  /\ NoRegistry
  /\ NoAux

\* runtime.rs 35: Runtime::clone() on handle h
clone(h) ==
  /\ variant = "clones"
  /\ Len(clones) < MaxClones
  /\ clones' = Append(clones, VariablesOf(h))
  /\ UNCHANGED <<schedVars, main, calls, bstate, bvariables, state, variables,
                 draft, inputs, display, needs_run,
                 conversion>>

\* runtime.rs 281-283: Runtime::set_variable(name, value) through handle h
\* inserts into the map that handle owns
clone_set_variable(h, n, v) ==
  /\ variant = "clones"
  /\ Len(calls) < MaxCalls
  /\ IF h = 0
     THEN /\ variables' = [variables EXCEPT ![n] = v]
          /\ UNCHANGED clones
     ELSE /\ clones' = [clones EXCEPT ![h] = [@ EXCEPT ![n] = v]]
          /\ UNCHANGED variables
  /\ calls' = Append(calls, <<"runtime_set_variable", n, v, h>>)
  /\ UNCHANGED <<schedVars, main, bstate, bvariables, state,
                 draft, inputs, display, needs_run,
                 conversion>>

\* runtime.rs 134-136: a task inserts an output through the clone it holds,
\* into the map all handles share
clone_insert_output(h, id, v) ==
  /\ variant = "clones"
  /\ Len(calls) < MaxCalls
  /\ outputs' = [outputs EXCEPT ![id] = v]
  /\ calls' = Append(calls, <<"insert_output", id, v, h>>)
  /\ UNCHANGED <<variant, actions, main, barriers, arrived, pc, widx, probed, ret, result,
                 events, notified, joined, aborted, retval, invoked, printed, order,
                 bstate, bvariables, state, variables, auxVars>>

\* runtime.rs 263-265: Runtime::get_output(node) through handle h (0: None)
clone_get_output(h, id) == outputs[id]

\* runtime.rs 292-296: Runtime::get_variable() through handle h reads the
\* entry "name" of the map that handle owns (0: None)
clone_get_variable(h) == VariablesOf(h)["name"]

NextClones ==
  \/ \E h \in Handles : clone(h)
  \/ \E h \in Handles, n \in Names, v \in Values : clone_set_variable(h, n, v)
  \/ \E h \in Handles, id \in Ids, v \in Values : clone_insert_output(h, id, v)

SpecClones == InitClones /\ [][NextClones]_vars

\* C25 (as claimed): once an output was inserted, or the variable "name" was set
\* with Runtime::set_variable, through one clone, get_output / get_variable on
\* every clone of that Runtime returns the value written last.
C25_ClonesShareStores ==
  variant = "clones" =>
    \A h \in Handles :
      /\ \A id \in Ids :
           LastValue("insert_output", id) # 0 =>
             clone_get_output(h, id) = LastValue("insert_output", id)
      /\ LastValue("runtime_set_variable", "name") # 0 =>
           clone_get_variable(h) = LastValue("runtime_set_variable", "name")

\* ------------------------------------------------ nodes that share no path
\* four nodes added in dependency order: 1 and 2 have no deps, 3 requires 1,
\* 4 requires 1 and 2 in either order; no path joins 2 and 3
CoupledGraphs ==
  {<<[id |-> 1, deps |-> <<>>], [id |-> 2, deps |-> <<>>],
     [id |-> 3, deps |-> <<1>>], [id |-> 4, deps |-> d4]>> :
     d4 \in {<<2, 1>>, <<1, 2>>}}

InitCoupled == Built("runtime", CoupledGraphs)

SpecCoupled == InitCoupled /\ [][Next]_vars

\* no dependency path leads from one of the two entries to the other
Independent(a, b) ==
  /\ IdOf(a) # IdOf(b)
  /\ IdOf(a) \notin TaskAncestors(b)
  /\ IdOf(b) \notin TaskAncestors(a)

\* the barrier task a is suspended on cannot open before the run of b returns:
\* it still lacks the arrival of a task c that is itself suspended on b's barrier
HeldBackBy(a, b) ==
  /\ pc[a] = "blocked"
  /\ \E c \in Tasks \ {a} :
       /\ WaitingOn(a) \in DepSet(actions[c].deps)
       /\ pc[c] = "blocked"
       /\ WaitingOn(c) = IdOf(b)

\* C26 (as claimed): of two nodes with no dependency path between them neither
\* waits for the other before running: while one of them is inside
\* run(Perform), the other is not suspended on a barrier that cannot open
\* before that run returns.
C26_UnrelatedDoNotWait ==
  (variant = "runtime" /\ WellFormed(actions)) =>
    \A a, b \in Tasks :
      (Independent(a, b) /\ pc[b] = "running") => ~HeldBackBy(a, b)

\* with node 4 requiring 2 before 1, nodes 2 and 3 are never inside
\* run(Perform) at the same time, although no path joins them
CoupledNeverOverlap ==
  (variant = "runtime" /\ actions \in CoupledGraphs /\ actions[4].deps = <<2, 1>>) =>
    ~(pc[2] = "running" /\ pc[3] = "running")

\* --------------------------------------------------------- dynamic inputs
\* action.rs 55-62: ActionObject::new wraps an action: a fresh id, no deps
new(id) ==
  /\ variant = "runtime"
  /\ main = "building"
  /\ draft = NoDraft
  /\ Len(actions) < MaxDynamic
  /\ id = Len(actions) + 1
  /\ draft' = [id |-> id, deps |-> <<>>, dyn |-> {}]
  /\ UNCHANGED <<schedVars, main, calls, bstate, bvariables, state, variables,
                 clones, inputs, display, needs_run,
                 conversion>>

\* action.rs 86-89: ActionObject::requires(action) pushes onto deps
requires(n) ==
  /\ variant = "runtime"
  /\ main = "building"
  /\ draft # NoDraft
  /\ Len(draft.deps) < MaxDeps
  /\ draft' = [draft EXCEPT !.deps = Append(@, n)]
  /\ UNCHANGED <<schedVars, main, calls, bstate, bvariables, state, variables,
                 clones, inputs, display, needs_run,
                 conversion>>

\* input.rs 20-22: ActionInput::new_dynamic(value) is Self::Dynamic(value); the
\* action of the node under construction holds it
new_dynamic(n) ==
  /\ variant = "runtime"
  /\ main = "building"
  /\ draft # NoDraft
  /\ n \notin draft.dyn
  /\ draft' = [draft EXCEPT !.dyn = @ \cup {n}]
  /\ UNCHANGED <<schedVars, main, calls, bstate, bvariables, state, variables,
                 clones, inputs, display, needs_run,
                 conversion>>

\* runtime.rs 319-323: RuntimeBuilder::add_action(node) for the node under
\* construction, which is moved into the builder
add_action_drafted ==
  /\ variant = "runtime"
  /\ main = "building"
  /\ draft # NoDraft
  /\ actions' = Append(actions, [id |-> draft.id, deps |-> draft.deps])
  /\ inputs' = inputs \cup {<<Len(actions) + 1, n>> : n \in draft.dyn}
  /\ draft' = NoDraft
  /\ pc' = Append(pc, "unspawned")
  /\ widx' = Append(widx, 1)
  /\ probed' = Append(probed, <<"NoCall">>)
  /\ ret' = Append(ret, <<"NoCall">>)
  /\ result' = Append(result, <<"Pending">>)
  /\ UNCHANGED <<variant, main, barriers, arrived, outputs, events, notified, joined,
                 aborted, retval, invoked, printed, order, calls, bstate, bvariables,
                 state, variables, clones, display, needs_run,
                 conversion>>

\* runtime.rs 336-344: build(), once no node is left under construction
build_drafted == draft = NoDraft /\ build

NextDynamic ==
  \/ \E id \in Ids : new(id)
  \/ \E n \in 1..MaxDynamic : requires(n)
  \/ \E n \in 1..MaxDynamic : new_dynamic(n)
  \/ add_action_drafted
  \/ build_drafted
  \/ Next

InitDynamic == Unbuilt("runtime") /\ NoRegistry /\ NoAux

SpecDynamic == InitDynamic /\ [][NextDynamic]_vars

\* the entries that hold a Dynamic input naming id n without listing n in deps
DynamicOnly(m, n) ==
  /\ <<m, n>> \in inputs
  /\ n \notin DepSet(actions[m].deps)

\* the graphs of CoupledGraphs where the action of node 3 holds Dynamic(2) and
\* node 3 does not require node 2
InitCoupledDynamic ==
  /\ Scheduled("runtime", CoupledGraphs)
  /\ NoRegistry
  /\ clones = <<>>
  /\ draft = NoDraft
  /\ inputs = {<<3, 2>>}
  /\ display = [id \in IdSpace |-> "node"]
  /\ needs_run = [id \in IdSpace |-> TRUE]
  /\ conversion = <<<<"None">>, "None", <<"NoCall">>>>

SpecCoupledDynamic == InitCoupledDynamic /\ [][Next]_vars

\* C27 (as claimed): when the action of M holds Dynamic(N) and M does not
\* require N, perform imposes no ordering between N and M: while N is inside
\* run(Perform), M is not suspended on a barrier that cannot open before that
\* run returns.
C27_NoOrderingImposed ==
  variant = "runtime" =>
    \A m, n \in Tasks :
      (DynamicOnly(m, IdOf(n)) /\ pc[n] = "running") => ~HeldBackBy(m, n)

\* the parts of C27 that hold on every graph built node by node:
\* ActionInput::new_dynamic(N) for the action of node M leaves M's deps as they
\* were, and an M that holds Dynamic(N) without requires(N) never waits on N's
\* own barrier during perform.
DynamicIsNotADependency ==
  /\ [][(draft.id # 0 /\ draft'.id = draft.id /\ draft'.dyn # draft.dyn) =>
          (draft'.deps = draft.deps /\ actions' = actions)]_vars
  /\ [](\A m \in Tasks : \A n \in 1..MaxDynamic :
          (variant = "runtime" /\ DynamicOnly(m, n) /\ pc[m] = "blocked") =>
            WaitingOn(m) # n)

\* M holds Dynamic(N) and does not require N; M is inside run(Perform) while
\* N's task has not probed yet and N has no output: get_output(N) gives None
DynamicSeesNoOutput ==
  /\ variant = "runtime"
  /\ \E m, n \in Tasks :
       /\ DynamicOnly(m, IdOf(n))
       /\ pc[m] = "running"
       /\ probed[n] = <<"NoCall">>
       /\ outputs[IdOf(n)] = 0

\* the distinct graph nodes that list id in their deps
ListedBy(g, id) == {g[i].id : i \in {j \in 1..Len(g) : id \in DepSet(g[j].deps)}}

\* C28 (as claimed): once perform has sized the barriers of an acyclic graph
\* with every node added once, the table holds a barrier for N exactly when at
\* least one graph node lists N in its deps, and its arity is 1 + the number of
\* distinct graph nodes that list N.
C28_BarrierTable ==
  (variant = "runtime" /\ main # "built" /\ WellFormed(actions)) =>
    \A id \in IdSpace :
      barriers[id] = IF ListedBy(actions, id) = {} THEN 0
                     ELSE 1 + Cardinality(ListedBy(actions, id))

\* C29 (as claimed): if a node's probe returned an error during perform,
\* run(Perform) is never invoked on that node, and when perform returns it
\* returns that error.
C29_ProbeErrorReturned ==
  (variant = "runtime" /\ NoDupNodes(actions)) =>
    \A t \in Tasks :
      probed[t][1] = "Err" =>
        /\ <<t, "Perform">> \notin invoked
        /\ main = "returned" => retval = probed[t]

\* C29 (amended): if a node's probe returned an error during perform,
\* run(Perform) is never invoked on that node and perform does not return Ok;
\* it returns that error when this node's task is the failed task the join
\* loop observed, and otherwise the failure of the task it observed first.
C29_ProbeErrorNeverRuns ==
  variant = "runtime" =>
    \A t \in Tasks :
      probed[t][1] = "Err" =>
        /\ <<t, "Perform">> \notin invoked
        /\ ret[t] = <<"NoCall">>
        /\ main = "returned" =>
             /\ retval[1] = "Err"
             /\ t \in joined => retval = probed[t]
             /\ t \notin joined =>
                  \E u \in joined : /\ result[u][1] \in {"Err", "Panic"}
                                    /\ retval = IF result[u] = <<"Panic">>
                                                THEN <<"Err", "JOIN_SET_ERROR">>
                                                ELSE result[u]

\* a probe failed, its node was never run, and perform returned that error
C29_Witness ==
  /\ variant = "runtime"
  /\ main = "returned"
  /\ \E t \in joined :
       /\ probed[t][1] = "Err"
       /\ <<t, "Perform">> \notin invoked
       /\ retval = probed[t]

\* perform and rollback side by side
NextPerformRollback ==
  \/ (variant = "runtime" /\ Next)
  \/ (variant = "rollback" /\ NextRollback)

SpecPerformRollback == (Init \/ InitRollback) /\ [][NextPerformRollback]_vars

\* C30 (as claimed): if a node's task panicked during perform or rollback, the
\* call has aborted the remaining tasks and returned
\* InternalError("JOIN_SET_ERROR") when it returns.
C30_PanicReturnsJoinSetError ==
  (variant \in {"runtime", "rollback"} /\ NoDupNodes(actions) /\ main = "returned") =>
    \A t \in Tasks :
      result[t] = <<"Panic">> =>
        (aborted /\ retval = <<"Err", "JOIN_SET_ERROR">>)

\* C30 (amended): if a node's task panicked during perform or rollback and the
\* join loop was handed that task before any failed one, the call has called
\* abort_all and returned InternalError("JOIN_SET_ERROR"); if it was handed
\* another failed task first, it has called abort_all and returned that task's
\* failure, and the panic is never looked at.
C30_FirstObservedPanic ==
  (variant \in {"runtime", "rollback"} /\ main = "returned") =>
    \A t \in Tasks :
      result[t] = <<"Panic">> =>
        /\ aborted
        /\ \A u \in Tasks : pc[u] \notin {"blocked", "blockedOwn"}
        /\ t \in joined => retval = <<"Err", "JOIN_SET_ERROR">>
        /\ t \notin joined =>
             \E u \in joined : /\ result[u][1] \in {"Err", "Panic"}
                               /\ retval = IF result[u] = <<"Panic">>
                                           THEN <<"Err", "JOIN_SET_ERROR">>
                                           ELSE result[u]

\* a task panicked, the join loop was handed it, a task that was suspended on
\* a barrier was cancelled, and perform returned InternalError("JOIN_SET_ERROR")
C30_Witness ==
  /\ variant = "runtime"
  /\ main = "returned"
  /\ retval = <<"Err", "JOIN_SET_ERROR">>
  /\ \E t \in joined : result[t] = <<"Panic">>
  /\ \E u \in Tasks : pc[u] = "cancelled"


\* ---------------------------------------------------------------------------
\* The blocking Runtime::rollback (blocking/runtime.rs 78-120). `order` holds
\* ids here, the keys of the local `dependencies` map.
\* ---------------------------------------------------------------------------

\* blocking/runtime.rs 82-96: the keys of `dependencies`: the id of every entry
\* (insert, line 87) and every id an entry lists (entry().or_insert, line 93),
\* in the graph or not
BlockingRollbackKeys ==
  GraphIds(actions) \cup UNION {DepSet(actions[i].deps) : i \in 1..Len(actions)}

\* blocking/runtime.rs 98-104: the (id, deps.len()) pairs are collected in the
\* iteration order of the HashMap, which is any order, and sorted by a stable
\* sort ascending in deps.len(): any arrangement of the keys in which the
\* length never decreases can come out
BlockingRollbackOrders ==
  LET K == BlockingRollbackKeys
  IN  {s \in [1..Cardinality(K) -> K] :
         /\ \A i, j \in 1..Cardinality(K) : i # j => s[i] # s[j]
         /\ \A i, j \in 1..Cardinality(K) :
              i < j => Dependents(actions, s[i]) <= Dependents(actions, s[j])}

\* blocking/runtime.rs 82-83: the loop reaches entry t and probes it
BlockingGateNext(t) ==
  /\ variant = "blockingRollback"
  /\ main = "built"
  /\ probed[t] = <<"NoCall">>
  /\ \A u \in Tasks : u < t => probed[u] = <<"CanRollback">>

\* blocking/runtime.rs 83, 87-95: can_rollback=true, the entry is recorded
BlockingRollbackProbeCan(t) ==
  /\ BlockingGateNext(t)
  /\ probed' = [probed EXCEPT ![t] = <<"CanRollback">>]
  /\ UNCHANGED <<regVars, order, printed, invoked, notified, variant, actions, main,
                 barriers, arrived, pc, widx, ret, result, outputs, events, joined,
                 aborted, retval>>

\* mutant: can_rollback=false is not looked at
BlockingRollbackProbeNoIgnored(t) ==
  /\ BlockingGateNext(t)
  /\ probed' = [probed EXCEPT ![t] = <<"NoRollback">>]
  /\ UNCHANGED <<regVars, order, printed, invoked, notified, variant, actions, main,
                 barriers, arrived, pc, widx, ret, result, outputs, events, joined,
                 aborted, retval>>

\* blocking/runtime.rs 83-85: can_rollback=false: return
\* Err(Error::OperationNotSupported)
BlockingRollbackProbeNo(t) ==
  /\ BlockingGateNext(t)
  /\ probed' = [probed EXCEPT ![t] = <<"NoRollback">>]
  /\ retval' = <<"Err", "OperationNotSupported">>
  /\ main' = "returned"
  /\ UNCHANGED <<regVars, order, printed, invoked, notified, variant, actions,
                 barriers, arrived, pc, widx, ret, result, outputs, events, joined,
                 aborted>>

\* blocking/runtime.rs 83: the probe fails, `?` returns its error from rollback()
BlockingRollbackProbeErr(t) ==
  /\ BlockingGateNext(t)
  /\ \E e \in ActionErrors :
       /\ probed' = [probed EXCEPT ![t] = <<"Err", e>>]
       /\ retval' = <<"Err", e>>
  /\ main' = "returned"
  /\ UNCHANGED <<regVars, order, printed, invoked, notified, variant, actions,
                 barriers, arrived, pc, widx, ret, result, outputs, events, joined,
                 aborted>>

\* blocking/runtime.rs 83: the probe panics, and rollback() with it
BlockingRollbackProbePanic(t) ==
  /\ BlockingGateNext(t)
  /\ probed' = [probed EXCEPT ![t] = <<"InCall">>]
  /\ retval' = <<"Panic">>
  /\ main' = "returned"
  /\ UNCHANGED <<regVars, order, printed, invoked, notified, variant, actions,
                 barriers, arrived, pc, widx, ret, result, outputs, events, joined,
                 aborted>>

\* blocking/runtime.rs 98-104: every probe passed: collect and sort the keys
BlockingRollbackSort ==
  /\ variant = "blockingRollback"
  /\ main = "built"
  /\ \A t \in Tasks : probed[t] = <<"CanRollback">>
  /\ order' \in BlockingRollbackOrders
  /\ main' = "running"
  /\ UNCHANGED <<regVars, printed, invoked, notified, variant, actions, barriers,
                 arrived, pc, widx, probed, ret, result, outputs, events, joined, aborted,
                 retval>>

\* blocking/runtime.rs 106: the run of the id's entry has returned Ok
BlockingRolledBack(id) ==
  \E t \in Tasks : IdOf(t) = id /\ ret[t][1] \in {"None", "Some"}

\* blocking/runtime.rs 106: the position the `for id in order` loop is at
BlockingRollbackCursor ==
  CHOOSE k \in 1..(Len(order) + 1) :
    /\ \A i \in 1..(k - 1) : BlockingRolledBack(order[i])
    /\ k <= Len(order) => ~BlockingRolledBack(order[k])

\* blocking/runtime.rs 107-110: find() yields None for a key that is the id of
\* no entry of the graph, and unwrap() panics
BlockingRollbackUnwrapPanic ==
  /\ variant = "blockingRollback"
  /\ main = "running"
  /\ BlockingRollbackCursor <= Len(order)
  /\ order[BlockingRollbackCursor] \notin GraphIds(actions)
  /\ retval' = <<"Panic">>
  /\ main' = "returned"
  /\ UNCHANGED <<regVars, order, printed, invoked, notified, variant, actions,
                 barriers, arrived, pc, widx, probed, ret, result, outputs, events,
                 joined, aborted>>

\* blocking/runtime.rs 107-112: find() yields the entry with the id, and
\* action.run(&self, Rollback) is called on it
BlockingRollbackRunCall(t) ==
  /\ variant = "blockingRollback"
  /\ main = "running"
  /\ BlockingRollbackCursor <= Len(order)
  /\ order[BlockingRollbackCursor] = IdOf(t)
  /\ ret[t] = <<"NoCall">>
  /\ ret' = [ret EXCEPT ![t] = <<"InCall">>]
  /\ invoked' = invoked \cup {<<t, "Rollback">>}
  /\ pc' = [pc EXCEPT ![t] = "running"]
  /\ UNCHANGED <<regVars, order, printed, notified, variant, actions, main, barriers,
                 arrived, widx, probed, result, outputs, events, joined, aborted, retval>>

\* mutant: the Output returned by run(Rollback) is dropped
BlockingRollbackRunOkDiscards(t) ==
  /\ variant = "blockingRollback"
  /\ main = "running"
  /\ pc[t] = "running"
  /\ \E o \in {<<"None">>} \cup {<<"Some", v>> : v \in Values} :
       ret' = [ret EXCEPT ![t] = o]
  /\ result' = [result EXCEPT ![t] = <<"Ok">>]
  /\ pc' = [pc EXCEPT ![t] = "done"]
  /\ UNCHANGED <<regVars, order, printed, invoked, notified, variant, actions, main,
                 barriers, arrived, widx, probed, outputs, events, joined, aborted, retval>>

\* blocking/runtime.rs 112-116: run returned Ok: insert the output, if any
BlockingRollbackRunOk(t) ==
  /\ variant = "blockingRollback"
  /\ main = "running"
  /\ pc[t] = "running"
  /\ \E o \in {<<"None">>} \cup {<<"Some", v>> : v \in Values} :
       /\ ret' = [ret EXCEPT ![t] = o]
       /\ outputs' = IF o[1] = "Some" THEN [outputs EXCEPT ![IdOf(t)] = o[2]] ELSE outputs
  /\ result' = [result EXCEPT ![t] = <<"Ok">>]
  /\ pc' = [pc EXCEPT ![t] = "done"]
  /\ UNCHANGED <<regVars, order, printed, invoked, notified, variant, actions, main,
                 barriers, arrived, widx, probed, events, joined, aborted, retval>>

\* blocking/runtime.rs 112: run returned Err, `?` returns it from rollback()
BlockingRollbackRunErr(t) ==
  /\ variant = "blockingRollback"
  /\ main = "running"
  /\ pc[t] = "running"
  /\ \E e \in ActionErrors :
       /\ ret' = [ret EXCEPT ![t] = <<"Err", e>>]
       /\ result' = [result EXCEPT ![t] = <<"Err", e>>]
       /\ retval' = <<"Err", e>>
  /\ pc' = [pc EXCEPT ![t] = "done"]
  /\ main' = "returned"
  /\ UNCHANGED <<regVars, order, printed, invoked, notified, variant, actions,
                 barriers, arrived, widx, probed, outputs, events, joined, aborted>>

\* blocking/runtime.rs 112: run panics, and rollback() with it
BlockingRollbackPanic(t) ==
  /\ variant = "blockingRollback"
  /\ main = "running"
  /\ pc[t] = "running"
  /\ result' = [result EXCEPT ![t] = <<"Panic">>]
  /\ retval' = <<"Panic">>
  /\ pc' = [pc EXCEPT ![t] = "done"]
  /\ main' = "returned"
  /\ UNCHANGED <<regVars, order, printed, invoked, notified, variant, actions,
                 barriers, arrived, widx, probed, ret, outputs, events, joined, aborted>>

\* blocking/runtime.rs 106-119: the loop is through, rollback() returns Ok(())
BlockingRollbackEnd ==
  /\ variant = "blockingRollback"
  /\ main = "running"
  /\ BlockingRollbackCursor = Len(order) + 1
  /\ retval' = <<"Ok">>
  /\ main' = "returned"
  /\ UNCHANGED <<regVars, order, printed, invoked, notified, variant, actions,
                 barriers, arrived, pc, widx, probed, ret, result, outputs, events, joined,
                 aborted>>

NextBlockingRollback ==
  \/ \E t \in Tasks : BlockingRollbackProbeCan(t)
  \/ \E t \in Tasks : BlockingRollbackProbeNo(t)
  \/ \E t \in Tasks : BlockingRollbackProbeErr(t)
  \/ \E t \in Tasks : BlockingRollbackProbePanic(t)
  \/ BlockingRollbackSort
  \/ BlockingRollbackUnwrapPanic
  \/ \E t \in Tasks : BlockingRollbackRunCall(t)
  \/ \E t \in Tasks : BlockingRollbackRunOk(t)
  \/ \E t \in Tasks : BlockingRollbackRunErr(t)
  \/ \E t \in Tasks : BlockingRollbackPanic(t)
  \/ BlockingRollbackEnd

InitBlockingRollback == Built("blockingRollback", BlockingGraphs(MaxActions))

SpecBlockingRollback == InitBlockingRollback /\ [][NextBlockingRollback]_vars

C32_BlockingRollbackOrder ==
  variant = "blockingRollback" =>
    \A b \in Tasks : \A d \in DepSet(actions[b].deps) :
      /\ \A a \in Tasks :
           (IdOf(a) = d /\ <<a, "Rollback">> \in invoked) => <<b, "Rollback">> \in invoked
      /\ ( /\ main = "returned"
           /\ \A t \in Tasks : probed[t] = <<"CanRollback">>
           /\ \A t \in Tasks : ret[t][1] # "Err" /\ result[t] # <<"Panic">> )
         => /\ <<b, "Rollback">> \in invoked
            /\ \E a \in Tasks : IdOf(a) = d /\ <<a, "Rollback">> \in invoked

\* blocking/action.rs (Action::probe): the blocking graphs whose actions' probes
\* report any needs_run, true or false
InitBlockingProbed ==
  /\ Scheduled("blocking", BlockingGraphs(MaxActions))
  /\ NoRegistry
  /\ clones = <<>>
  /\ draft = NoDraft
  /\ inputs = {}
  /\ display = [id \in IdSpace |-> "node"]
  /\ needs_run \in {f \in [IdSpace -> BOOLEAN] :
                      \A id \in IdSpace \ GraphIds(actions) : f[id]}
  /\ conversion = <<<<"None">>, "None", <<"NoCall">>>>

SpecBlockingProbed == InitBlockingProbed /\ [][NextBlocking]_vars

\* C33 (as claimed): the blocking perform() does not invoke run(Perform) on a
\* node whose probe reports needs_run=false.
C33_BlockingSkipsNoNeed ==
  variant = "blocking" =>
    \A t \in Tasks : ~needs_run[IdOf(t)] => <<t, "Perform">> \notin invoked

\* the async and the blocking rollback, each on its own graphs
NextAnyRollback ==
  \/ variant = "rollback" /\ NextRollback
  \/ variant = "blockingRollback" /\ NextBlockingRollback

SpecAnyRollback == (InitRollback \/ InitBlockingRollback) /\ [][NextAnyRollback]_vars

\* C34 (as claimed): no step of rollback(), async or blocking, changes the
\* output store: the Output a run(Rollback) returns is discarded.
C34_RollbackKeepsOutputs ==
  [][(variant \in {"rollback", "blockingRollback"}) => (outputs' = outputs)]_vars

\* every node of the graph is added once, after every node it lists
DepsAddedFirst(g) ==
  /\ NoDupNodes(g)
  /\ \A i \in 1..Len(g) : \A d \in DepSet(g[i].deps) : \E j \in 1..(i - 1) : g[j].id = d

\* C35 (as claimed): in the legacy ContextAbstract::run, if the perform of an
\* action returned an error, no action that lists it in its deps starts its
\* perform, and on_action_started does not fire for it.
C35_LegacyFailureStopsDependents ==
  (variant = "legacy" /\ DepsAddedFirst(actions)) =>
    \A a, b \in Tasks :
      (IdOf(a) \in DepSet(actions[b].deps) /\ <<"failed", a>> \in events) =>
        /\ <<"started", b>> \notin events
        /\ ret[b] = <<"NoCall">>

\* C36 (as claimed): every key of the barrier table perform() builds is the id
\* of a node added to the builder, and no task whose probes and runs all
\* succeed is left blocked for good on the barrier of a node never added.
C36_BarrierKeysAdded ==
  (variant = "runtime" /\ main # "built" /\ NoDupNodes(actions)) =>
    /\ \A id \in IdSpace : barriers[id] # 0 => id \in GraphIds(actions)
    /\ (AllHealthy /\ Stuck) =>
         \A t \in Tasks : pc[t] = "blocked" => WaitingOn(t) \in GraphIds(actions)

\* action.rs 86-89 (requires pushes onto deps, with no check for a node already
\* listed): B (2) lists A (1) once or twice; a third node lists nothing, A or B
RepeatedGraphs ==
  {<<[id |-> 1, deps |-> <<>>], [id |-> 2, deps |-> d2], [id |-> 3, deps |-> d3]>> :
     d2 \in {<<1>>, <<1, 1>>}, d3 \in {<<>>, <<1>>, <<2>>}}

InitRepeated == Built("runtime", RepeatedGraphs)

SpecRepeated == InitRepeated /\ [][Next]_vars

\* C37 (as claimed): when a node lists the same prerequisite more than once
\* and every probe and run succeeds, perform() is never stuck short of
\* returning Ok.
C37_RepeatedDepTerminates ==
  (variant = "runtime" /\ AllHealthy /\ \E t \in Tasks : ~NoDupDeps(<<actions[t]>>))
    => ~Stuck

\* C38 (as claimed): on a graph with a dependency cycle, a self-requiring node
\* included, perform() never invokes probe or run on a node of the cycle.
C38_CycleNeverProbed ==
  (variant = "runtime" /\ NoDupNodes(actions)) =>
    \A t \in Tasks :
      IdOf(t) \in TaskAncestors(t) =>
        /\ probed[t] = <<"NoCall">>
        /\ ret[t] = <<"NoCall">>

\* C39: when perform() has returned Ok, every spawned task has completed with
\* Ok and has been collected by the join loop: none is pending, blocked on a
\* barrier, or inside probe or run.
C39_OkOnlyAfterAllDone ==
  (variant = "runtime" /\ retval = <<"Ok">>) =>
    /\ main = "returned"
    /\ joined = Tasks
    /\ \A t \in Tasks :
         /\ pc[t] = "done"
         /\ result[t] = <<"Ok">>
         /\ probed[t][1] \in {"Run", "Skip"}
         /\ probed[t] = <<"Run">> => ret[t][1] \in {"None", "Some"}

C39_Witness ==
  /\ variant = "runtime"
  /\ retval = <<"Ok">>
  /\ DepsAddedFirst(actions)
  /\ Len(actions) = MaxActions
  /\ \E a, b \in Tasks :
       /\ IdOf(a) \in DepSet(actions[b].deps)
       /\ probed[a] = <<"Run">> /\ probed[b] = <<"Run">>

====
